---- MODULE Spec2Model ----
(***************************************************************************)
(* Build-Trace: the change-detection engine (app/diff.py) and the job      *)
(* metrics aggregator (app/metrics.py), as state machines.                 *)
(*                                                                         *)
(* A Python dict is a function whose DOMAIN is its key set, so             *)
(* `"id" in obj` is `"id" \in DOMAIN obj`.  An ordered dict (insertion     *)
(* order matters to the code) is a sequence of <<key, value>> pairs.       *)
(* A JSON coordinate is Num(n) or None; an absent key is absent from the   *)
(* DOMAIN.                                                                 *)
(***************************************************************************)
EXTENDS Integers, Sequences, FiniteSets, TLC

VARIABLES
    a,            \* diff: snapshot A, a sequence of objects
    b,            \* diff: snapshot B
    client,       \* diff.py module global: TRUE iff the Gemini client is configured
    pc,           \* diff: "idle" | "call" (inputs chosen) | "done" (diff returned or raised)
    result,       \* diff: what diff(a, b) gave the caller
    response,     \* diff: what the Gemini call of diff(a, b) did, if it was made
    jobs,         \* Metrics.jobs: job id -> record (a dict of dicts)
    latencies,    \* Metrics.latencies
    hourly_stats, \* Metrics.hourly_stats: hour key -> bucket
    errors,       \* Metrics.errors
    error_categories, \* Metrics.error_categories
    active_requests,  \* Metrics.active_requests
    now,          \* the wall clock read by datetime.now(), in seconds
    ops,          \* number of aggregator calls made so far (bounds the run)
    last,         \* the last aggregator call: its arguments and whether it raised
    seen,         \* history: the job ids given to mark_start or mark_end so far
    snap,         \* the value the last snapshot() call returned
    thr,          \* per thread: where it is in its call of a Metrics method, the
                  \* call, and the value it holds in a local or on its stack
    views,        \* history, per thread in snapshot(): what an uninterrupted
                  \* snapshot() would have returned in each state since its call
    args,         \* a function called on its own: the arguments of the call
    ret           \* a function called on its own: what the call returned

diffVars == <<a, b, client, pc, result, response>>
metricVars == <<jobs, latencies, hourly_stats, errors, error_categories,
                active_requests, now, ops, last, seen, snap>>
threadVars == <<thr, views>>
callVars == <<args, ret>>
vars == <<a, b, client, pc, result, response, jobs, latencies, hourly_stats, errors,
          error_categories, active_requests, now, ops, last, seen, snap, thr, views,
          args, ret>>

(***************************************************************************)
(* Bounds                                                                  *)
(***************************************************************************)
\* objects in the two snapshots together (SpecDiff)
MaxObjs == 2
\* objects in the snapshot compared with itself (SpecSelf)
MaxLen == 2
\* largest coordinate value
MaxCoord == 1

\* aggregator calls in one run
MaxOps == 3
\* the clock is read at most this many hours and seconds after the start, together
MaxTicks == 1
\* jobs tracked before the run starts (SpecFleet)
MaxFleet == 5
\* recorded latencies in any order, and their largest value (SpecLatency)
MaxLats == 3
MaxLatency == 2
\* recorded latencies when they are all different (SpecLatency)
MaxRun == 101
\* hourly buckets before the run starts (SpecSpike)
MaxHours == 4
\* threads that call the aggregator at the same time (SpecThreads)
MaxThreads == 2
\* deltas given to get_direction lie in -MaxDelta..MaxDelta
MaxDelta == 5
\* objects per category given to generate_summary_simple
MaxItems == 3
\* jobs that completed, jobs still running and missing-data events before the
\* run starts (SpecMissing)
MaxDone == 19
MaxPending == 1
MaxMissing == 1
\* objects per snapshot when ids repeat (SpecOrder)
MaxSeq == 3
\* requests handled by the server (SpecServer)
MaxRequests == 2

ObjIds == {"A1", "D1"}
ObjTypes == {"wall"}

(***************************************************************************)
(* Python values                                                           *)
(***************************************************************************)
None == [t |-> "none", v |-> 0]
Num(n) == [t |-> "num", v |-> n]
IsNone(u) == u.t = "none"

EmptyDict == <<>>

\* dict.get(key): None when the key is absent
Get(obj, key) == IF key \in DOMAIN obj THEN obj[key] ELSE None
\* dict.get(key, default)
GetDefault(obj, key, default) == IF key \in DOMAIN obj THEN obj[key] ELSE default

CoordVals == {None} \cup {Num(n) : n \in 0..MaxCoord}
IdPart == {("id" :> i) : i \in ObjIds}
TypePart == {("type" :> ty) : ty \in ObjTypes}
XPart == {EmptyDict} \cup {("x" :> v) : v \in CoordVals}
YPart == {EmptyDict} \cup {("y" :> v) : v \in CoordVals}

\* objects that carry an id: every combination of present, null and absent coordinates
IdObjects == {i @@ ty @@ x @@ y : i \in IdPart, ty \in TypePart, x \in XPart, y \in YPart}
\* objects lacking an id (diff never reads anything else of them)
NoIdObjects == {[type |-> "wall", x |-> Num(0), y |-> Num(0)]}
Objects == IdObjects \cup NoIdObjects

(***************************************************************************)
(* Ordered dicts                                                           *)
(***************************************************************************)
HasKey(d, k) == \E i \in 1..Len(d) : d[i][1] = k
Lookup(d, k) == d[CHOOSE i \in 1..Len(d) : d[i][1] = k][2]
\* d[k] = v: a new key goes last, an existing key keeps its place
DictPut(d, k, v) ==
    IF HasKey(d, k)
    THEN [i \in 1..Len(d) |-> IF d[i][1] = k THEN <<k, v>> ELSE d[i]]
    ELSE Append(d, <<k, v>>)
Values(d) == [i \in 1..Len(d) |-> d[i][2]]

\* {obj["id"]: obj for obj in s if "id" in obj}
RECURSIVE BuildIndexMutant(_)
\* a repeated id moves to the end of the index
BuildIndexMutant(s) ==
    IF s = <<>> THEN <<>>
    ELSE LET prev == BuildIndexMutant(SubSeq(s, 1, Len(s) - 1))
             obj == s[Len(s)]
         IN IF "id" \in DOMAIN obj
            THEN Append(SelectSeq(prev, LAMBDA e : e[1] # obj.id), <<obj.id, obj>>)
            ELSE prev

RECURSIVE BuildIndex(_)
BuildIndex(s) ==
    IF s = <<>> THEN <<>>
    ELSE LET prev == BuildIndex(SubSeq(s, 1, Len(s) - 1))
             obj == s[Len(s)]
         IN IF "id" \in DOMAIN obj THEN DictPut(prev, obj.id, obj) ELSE prev

(***************************************************************************)
(* Strings: a text is a sequence of string tokens; concatenation is \o.    *)
(***************************************************************************)
Digits == <<"0", "1", "2", "3", "4", "5", "6", "7", "8", "9">>
RECURSIVE NatStr(_)
NatStr(n) == IF n < 10 THEN <<Digits[n + 1]>> ELSE NatStr(n \div 10) \o <<Digits[(n % 10) + 1]>>
\* str(n) for an int
IntStr(n) == IF n < 0 THEN <<"-">> \o NatStr(-n) ELSE NatStr(n)
\* str(v) for a coordinate value
Str(u) == IF IsNone(u) THEN <<"None">> ELSE IntStr(u.v)
\* str.capitalize()
Capitalize(s) ==
    CASE s = "wall" -> "Wall"
      [] s = "door" -> "Door"
      [] s = "window" -> "Window"
      [] s = "object" -> "Object"
      [] s = "unknown" -> "Unknown"
      [] OTHER -> s
Abs(n) == IF n < 0 THEN -n ELSE n

RECURSIVE Join(_, _)
\* sep.join(parts)
Join(parts, sep) ==
    IF parts = <<>> THEN <<>>
    ELSE IF Len(parts) = 1 THEN parts[1]
    ELSE parts[1] \o sep \o Join(Tail(parts), sep)

NoChangesText == <<"No changes detected.">>

(***************************************************************************)
(* get_direction                                                           *)
(***************************************************************************)
get_directionMutant(x_delta, y_delta) ==
    IF x_delta = 0 /\ y_delta = 0 THEN <<"in place">>
    ELSE LET ns == IF Abs(y_delta) > 0
                   THEN <<IF y_delta > 0 THEN "north" ELSE "south">> ELSE <<>>
             ew == IF Abs(x_delta) > 0
                   THEN <<IF x_delta > 0 THEN "east" ELSE "west">> ELSE <<>>
             directions == ew \o ns
         IN IF Len(directions) > 1 THEN directions
            ELSE IF directions # <<>> THEN <<directions[1]>> ELSE <<"in place">>

get_direction(x_delta, y_delta) ==
    IF x_delta = 0 /\ y_delta = 0 THEN <<"in place">>
    ELSE LET ns == IF Abs(y_delta) > 0
                   THEN <<IF y_delta > 0 THEN "north" ELSE "south">> ELSE <<>>
             ew == IF Abs(x_delta) > 0
                   THEN <<IF x_delta > 0 THEN "east" ELSE "west">> ELSE <<>>
             directions == ns \o ew
         IN IF Len(directions) > 1 THEN directions
            ELSE IF directions # <<>> THEN <<directions[1]>> ELSE <<"in place">>

(***************************************************************************)
(* generate_summary_simple                                                 *)
(***************************************************************************)
RECURSIVE CountByType(_)
\* by_type[obj_type] = by_type.get(obj_type, 0) + 1, over objs in order
CountByType(objs) ==
    IF objs = <<>> THEN <<>>
    ELSE LET prev == CountByType(SubSeq(objs, 1, Len(objs) - 1))
             obj_type == GetDefault(objs[Len(objs)], "type", "object")
             old == IF HasKey(prev, obj_type) THEN Lookup(prev, obj_type) ELSE 0
         IN DictPut(prev, obj_type, old + 1)

TypeStrsMutant(by_type) ==
    [i \in 1..Len(by_type) |->
        IntStr(by_type[i][2]) \o <<" ", by_type[i][1]>>
            \o (IF by_type[i][2] >= 1 THEN <<"s">> ELSE <<>>)]

\* [f"{count} {obj_type}{'s' if count > 1 else ''}" for obj_type, count in by_type.items()]
TypeStrs(by_type) ==
    [i \in 1..Len(by_type) |->
        IntStr(by_type[i][2]) \o <<" ", by_type[i][1]>>
            \o (IF by_type[i][2] > 1 THEN <<"s">> ELSE <<>>)]

RemovedClause(removed) ==
    IF Len(removed) = 1
    THEN <<Capitalize(GetDefault(removed[1], "type", "Object")), " ", removed[1].id, " removed">>
    ELSE Join(TypeStrs(CountByType(removed)), <<", ">>) \o <<" removed">>

AddedClause(added) ==
    IF Len(added) = 1
    THEN <<Capitalize(GetDefault(added[1], "type", "Object")), " ", added[1].id, " added at (">>
            \o Str(Get(added[1], "x")) \o <<",">> \o Str(Get(added[1], "y")) \o <<")">>
    ELSE Join(TypeStrs(CountByType(added)), <<", ">>) \o <<" added">>

MovedClause(moved) ==
    IF Len(moved) = 1
    THEN LET obj == moved[1]
             direction == get_direction(obj.delta.x.v, obj.delta.y.v)
             distance == Abs(obj.delta.x.v) + Abs(obj.delta.y.v)
         IN <<Capitalize(GetDefault(obj, "type", "Object")), " ", obj.id, " moved ">>
                \o IntStr(distance) \o <<" units ">> \o direction
    ELSE IntStr(Len(moved)) \o <<" objects repositioned">>

generate_summary_simple(added, removed, moved) ==
    IF added = <<>> /\ removed = <<>> /\ moved = <<>> THEN NoChangesText
    ELSE LET parts == (IF removed # <<>> THEN <<RemovedClause(removed)>> ELSE <<>>)
                      \o (IF added # <<>> THEN <<AddedClause(added)>> ELSE <<>>)
                      \o (IF moved # <<>> THEN <<MovedClause(moved)>> ELSE <<>>)
         IN Join(parts, <<"; ">>) \o <<".">>

(***************************************************************************)
(* generate_summary_with_gemini, generate_summary                          *)
(***************************************************************************)
\* what client.models.generate_content can do: return text whose strip() is
\* non-empty, return text whose strip() is empty, or raise
GeneratedText == <<"<generated summary>">>
Whitespace == {" ", "\n"}

\* what client.models.generate_content does: it raises, or returns a response
\* whose .text is None or a text
GeminiResponses ==
    {[kind |-> "raises", error |-> "APIError"],
     [kind |-> "raises", error |-> "TimeoutError"],
     [kind |-> "no text"],
     [kind |-> "text", text |-> <<>>],
     [kind |-> "text", text |-> <<" ", "\n">>],
     [kind |-> "text", text |-> GeneratedText],
     [kind |-> "text", text |-> <<"\n">> \o GeneratedText \o <<" ">>]}
\* the call fails, or it answers with a text (SpecDiff, SpecSelf)
GeminiOutcomes ==
    {[kind |-> "raises", error |-> "APIError"],
     [kind |-> "text", text |-> <<"\n">> \o GeneratedText \o <<" ">>]}
\* the call was not made
NotCalled == [kind |-> "not called"]

\* a strip that leaves the text as it is
stripMutant(text) == text

\* str.strip()
strip(text) ==
    LET inner == {i \in 1..Len(text) : text[i] \notin Whitespace}
    IN IF inner = {} THEN <<>>
       ELSE SubSeq(text, CHOOSE i \in inner : \A k \in inner : i <= k,
                         CHOOSE i \in inner : \A k \in inner : k <= i)

\* lines 265-281: None.strip() raises AttributeError, which the except catches
SummaryOfResponse(added, removed, moved, outcome) ==
    IF outcome.kind = "text"
    THEN LET summary == strip(outcome.text)
         IN IF summary # <<>> THEN summary
            ELSE generate_summary_simple(added, removed, moved)
    ELSE generate_summary_simple(added, removed, moved)

\* generate_summary_with_gemini without the early return for an empty change set
generate_summary_with_geminiMutant(added, removed, moved, outcome) ==
    SummaryOfResponse(added, removed, moved, outcome)

generate_summary_with_gemini(added, removed, moved, outcome) ==
    IF added = <<>> /\ removed = <<>> /\ moved = <<>> THEN NoChangesText
    ELSE SummaryOfResponse(added, removed, moved, outcome)

generate_summary(added, removed, moved, cl, outcome) ==
    IF cl THEN generate_summary_with_gemini(added, removed, moved, outcome)
    ELSE generate_summary_simple(added, removed, moved)

(***************************************************************************)
(* diff                                                                    *)
(***************************************************************************)
\* Python's u - v on coordinate values: a TypeError when either is None
CanSub(u, v) == ~IsNone(u) /\ ~IsNone(v)
Sub(u, v) == Num(u.v - v.v)

\* NotIn with the membership test lost: every indexed object is reported
NotInMutant(index, other) == Values(index)

\* for obj_id, obj in b_index.items(): if obj_id not in a_index: added.append(obj)
NotIn(index, other) ==
    Values(SelectSeq(index, LAMBDA e : ~HasKey(other, e[1])))

\* PositionChanged that looks at x alone
PositionChangedMutant(obj_a, obj_b) == Get(obj_a, "x") # Get(obj_b, "x")

\* x_changed or y_changed, for an id of both indices
PositionChanged(obj_a, obj_b) ==
    LET x_changed == Get(obj_a, "x") # Get(obj_b, "x")
        y_changed == Get(obj_a, "y") # Get(obj_b, "y")
    IN x_changed \/ y_changed

\* the subtractions of the two deltas raise TypeError
DeltaRaises(obj_a, obj_b) ==
    \/ ~CanSub(GetDefault(obj_b, "x", Num(0)), GetDefault(obj_a, "x", Num(0)))
    \/ ~CanSub(GetDefault(obj_b, "y", Num(0)), GetDefault(obj_a, "y", Num(0)))

MovedRecord(obj_id, obj_a, obj_b) ==
    [id |-> obj_id,
     type |-> GetDefault(obj_b, "type", "unknown"),
     from |-> [x |-> Get(obj_a, "x"), y |-> Get(obj_a, "y")],
     to |-> [x |-> Get(obj_b, "x"), y |-> Get(obj_b, "y")],
     delta |-> [x |-> Sub(GetDefault(obj_b, "x", Num(0)), GetDefault(obj_a, "x", Num(0))),
                y |-> Sub(GetDefault(obj_b, "y", Num(0)), GetDefault(obj_a, "y", Num(0)))]]

\* the entries of a_index the loop over a_index.keys() appends a moved record for
MovedEntries(a_index, b_index) ==
    SelectSeq(a_index, LAMBDA e : HasKey(b_index, e[1])
                                  /\ PositionChanged(e[2], Lookup(b_index, e[1])))

Stats(added, removed, moved) ==
    [added_count |-> Len(added),
     removed_count |-> Len(removed),
     moved_count |-> Len(moved),
     total_changes |-> Len(added) + Len(removed) + Len(moved)]

\* diff(a, b) with the Gemini call, if one is made, ending as `outcome`
diff(va, vb, cl, outcome) ==
    LET a_index == BuildIndex(va)
        b_index == BuildIndex(vb)
        added == NotIn(b_index, a_index)
        removed == NotIn(a_index, b_index)
        changed == MovedEntries(a_index, b_index)
    IN IF \E i \in 1..Len(changed) :
              DeltaRaises(changed[i][2], Lookup(b_index, changed[i][1]))
       THEN [raised |-> TRUE, error |-> "TypeError"]
       ELSE LET moved == [i \in 1..Len(changed) |->
                            MovedRecord(changed[i][1], changed[i][2],
                                        Lookup(b_index, changed[i][1]))]
            IN [raised |-> FALSE,
                added |-> added,
                removed |-> removed,
                moved |-> moved,
                summary |-> generate_summary(added, removed, moved, cl, outcome),
                stats |-> Stats(added, removed, moved)]

(***************************************************************************)
(* Metrics: the aggregator's state and inputs                              *)
(***************************************************************************)
JobIds == {"job-001", "job-002"}
ErrorTypes == {"missing_data", "validation_error"}
SecondsPerHour == 3600
\* the instants at which the clock is read
ClockValues ==
    {q[1] * SecondsPerHour + q[2] :
        q \in {r \in (0..MaxTicks) \X (0..MaxTicks) : r[1] + r[2] <= MaxTicks}}

StatsOf(x, y, z) ==
    [added_count |-> x, removed_count |-> y, moved_count |-> z, total_changes |-> x + y + z]
\* the `result` argument of mark_end: None, or a diff result carrying "stats"
ResultArgs == {None} \cup {[stats |-> StatsOf(2, 1, 3)]}
\* the (added, removed, moved) arguments of record_changes
ChangeArgs == {<<1, 0, 2>>}

\* bool(result)
Truthy(r) == r # None /\ DOMAIN r # {}

\* datetime.isoformat()
Iso(t) == [iso |-> t]
\* strftime("%Y-%m-%d %H:00"): the hour the instant falls in; the keys sort chronologically
HourKey(t) == t \div SecondsPerHour

Max(x, y) == IF x > y THEN x ELSE y

\* d[k] = v for a dict held as a function
Put(d, k, v) == (k :> v) @@ d

ThreadIds == 1..MaxThreads
NoCall == [op |-> "none"]

\* no thread is inside a method of the aggregator
ThreadsIdle ==
    /\ thr = [t \in ThreadIds |-> [pc |-> "idle", call |-> NoCall, tmp |-> 0]]
    /\ views = [t \in ThreadIds |-> {}]

MetricsInit ==
    /\ jobs = <<>>
    /\ latencies = <<>>
    /\ hourly_stats = <<>>
    /\ errors = <<>>
    /\ error_categories = <<>>
    /\ active_requests = 0
    /\ now = 0
    /\ ops = 0
    /\ last = [op |-> "init"]
    /\ seen = {}
    /\ snap = [op |-> "none"]
    /\ ThreadsIdle

(***************************************************************************)
(* Metrics.mark_start                                                      *)
(***************************************************************************)
mark_start_record(t) ==
    [start_time |-> t, start_time_iso |-> Iso(t), status |-> "running"]

MarkStart(job_id) ==
    /\ ops < MaxOps
    /\ jobs' = Put(jobs, job_id, mark_start_record(now))
    /\ active_requests' = active_requests + 1
    /\ ops' = ops + 1
    /\ last' = [op |-> "mark_start", job_id |-> job_id, raised |-> FALSE]
    /\ seen' = seen \cup {job_id}
    /\ UNCHANGED <<latencies, hourly_stats, errors, error_categories, now, snap>>
    /\ UNCHANGED diffVars /\ UNCHANGED callVars
    /\ UNCHANGED threadVars

(***************************************************************************)
(* Metrics.mark_end                                                        *)
(***************************************************************************)
EndStatus(ok) == IF ok THEN "success" ELSE "failed"

\* the record of a tracked job after lines 45-52
EndedJob(job, end_time, ok) ==
    LET ended == Put(Put(Put(job, "end_time", end_time), "end_time_iso", Iso(end_time)),
                     "status", EndStatus(ok))
    IN IF "start_time" \in DOMAIN job
       THEN Put(ended, "latency_seconds", end_time - job.start_time)
       ELSE ended

\* a record for an unknown id that takes the end instant as the start as well
MinimalJobMutant(end_time, ok) ==
    [start_time |-> end_time, start_time_iso |-> Iso(end_time),
     end_time |-> end_time, end_time_iso |-> Iso(end_time),
     status |-> EndStatus(ok), latency_seconds |-> 0]

\* the minimal record of lines 75-79
MinimalJob(end_time, ok) ==
    [end_time |-> end_time, end_time_iso |-> Iso(end_time), status |-> EndStatus(ok)]

\* lines 50, 54: the latency is appended
CountsLatency(job_id, ok) ==
    job_id \in DOMAIN jobs /\ "start_time" \in DOMAIN jobs[job_id] /\ ok

\* line 58: the hourly bucket is updated
TracksHour(job_id, ok, res) ==
    CountsLatency(job_id, ok) /\ Truthy(res) /\ "stats" \in DOMAIN res

NewBucket == [added |-> 0, removed |-> 0, moved |-> 0, jobs |-> 0]

\* lines 59-72 on the bucket of hour_key; line 72 raises KeyError on a bucket
\* that record_changes created, which has no "jobs" key
BucketAfterEnd(hour_key, stats) ==
    LET bucket == IF hour_key \in DOMAIN hourly_stats THEN hourly_stats[hour_key] ELSE NewBucket
        summed == [bucket EXCEPT !.added = @ + GetDefault(stats, "added_count", 0),
                                 !.removed = @ + GetDefault(stats, "removed_count", 0),
                                 !.moved = @ + GetDefault(stats, "moved_count", 0)]
    IN IF "jobs" \in DOMAIN bucket THEN [summed EXCEPT !.jobs = @ + 1] ELSE summed

EndRaises(job_id, ok, res) ==
    /\ TracksHour(job_id, ok, res)
    /\ HourKey(now) \in DOMAIN hourly_stats
    /\ "jobs" \notin DOMAIN hourly_stats[HourKey(now)]

processing_error(job_id, t) ==
    [job_id |-> job_id, timestamp |-> Iso(t), type |-> "processing_error"]

MarkEnd(job_id, ok, res) ==
    /\ ops < MaxOps
    /\ active_requests' = Max(0, active_requests - 1)
    /\ jobs' = IF job_id \in DOMAIN jobs
               THEN Put(jobs, job_id, EndedJob(jobs[job_id], now, ok))
               ELSE Put(jobs, job_id, MinimalJob(now, ok))
    /\ latencies' = IF CountsLatency(job_id, ok)
                    THEN Append(latencies, now - jobs[job_id].start_time)
                    ELSE latencies
    /\ hourly_stats' = IF TracksHour(job_id, ok, res)
                       THEN Put(hourly_stats, HourKey(now), BucketAfterEnd(HourKey(now), res.stats))
                       ELSE hourly_stats
    /\ errors' = IF ~ok
                 THEN Append(errors, processing_error(job_id, now))
                 ELSE errors
    /\ ops' = ops + 1
    /\ last' = [op |-> "mark_end", job_id |-> job_id, ok |-> ok, result |-> res,
                raised |-> EndRaises(job_id, ok, res)]
    /\ seen' = seen \cup {job_id}
    /\ UNCHANGED <<error_categories, now, snap>>
    /\ UNCHANGED diffVars /\ UNCHANGED callVars
    /\ UNCHANGED threadVars

(***************************************************************************)
(* Metrics.mark_error, Metrics.record_changes, the clock                   *)
(***************************************************************************)
MarkError(job_id, error_type) ==
    /\ ops < MaxOps
    /\ errors' = Append(errors, [job_id |-> job_id, timestamp |-> Iso(now), type |-> error_type])
    /\ error_categories' = Put(error_categories, error_type,
                               GetDefault(error_categories, error_type, 0) + 1)
    /\ ops' = ops + 1
    /\ last' = [op |-> "mark_error", job_id |-> job_id, type |-> error_type, raised |-> FALSE]
    /\ UNCHANGED <<jobs, latencies, hourly_stats, active_requests, now, seen, snap>>
    /\ UNCHANGED diffVars /\ UNCHANGED callVars
    /\ UNCHANGED threadVars

RecordChanges(added, removed, moved) ==
    /\ ops < MaxOps
    /\ LET hour_key == HourKey(now)
           bucket == IF hour_key \in DOMAIN hourly_stats THEN hourly_stats[hour_key]
                     ELSE [added |-> 0, removed |-> 0, moved |-> 0]
       IN hourly_stats' = Put(hourly_stats, hour_key,
                              [bucket EXCEPT !.added = @ + added,
                                             !.removed = @ + removed,
                                             !.moved = @ + moved])
    /\ ops' = ops + 1
    /\ last' = [op |-> "record_changes", raised |-> FALSE]
    /\ UNCHANGED <<jobs, latencies, errors, error_categories, active_requests, now, seen, snap>>
    /\ UNCHANGED diffVars /\ UNCHANGED callVars
    /\ UNCHANGED threadVars

\* time passes between two calls
Tick(t) ==
    /\ t > now
    /\ now' = t
    /\ UNCHANGED <<jobs, latencies, hourly_stats, errors, error_categories,
                   active_requests, ops, last, seen, snap>>
    /\ UNCHANGED diffVars /\ UNCHANGED callVars
    /\ UNCHANGED threadVars

(***************************************************************************)
(* Metrics.get_success_rate                                                *)
(***************************************************************************)
\* a Python float that is the quotient of two ints, kept exact
Rat(n, d) == [num |-> n, den |-> d]
RatEq(p, q) == p.num * q.den = q.num * p.den
RatLe(p, q) == p.num * q.den <= q.num * p.den

CountStatus(js, st) == Cardinality({j \in DOMAIN js : Get(js[j], "status") = st})

\* get_success_rate taking the completed jobs, not all records, as the total
get_success_rateMutant(js) ==
    LET successful == CountStatus(js, "success")
        failed == CountStatus(js, "failed")
        total == successful + failed
    IN [success_rate |-> IF total > 0 THEN Rat(successful * 100, total) ELSE Rat(0, 1),
        total |-> total,
        successful |-> successful,
        failed |-> failed]

get_success_rate(js) ==
    IF DOMAIN js = {}
    THEN [success_rate |-> Rat(0, 1), total |-> 0, successful |-> 0, failed |-> 0]
    ELSE LET successful == CountStatus(js, "success")
             failed == CountStatus(js, "failed")
             total == Cardinality(DOMAIN js)
         IN [success_rate |-> IF total > 0 THEN Rat(successful * 100, total) ELSE Rat(0, 1),
             total |-> total,
             successful |-> successful,
             failed |-> failed]

\* self.errors[-10:]
LastTen(es) == SubSeq(es, Max(1, Len(es) - 9), Len(es))

(***************************************************************************)
(* Metrics.calculate_percentiles                                           *)
(***************************************************************************)
\* the place of s[i] once s is sorted; equal values keep their order
Place(s, i) ==
    Cardinality({j \in 1..Len(s) : s[j] < s[i]})
        + Cardinality({j \in 1..i : s[j] = s[i]})

\* sorted(s)
sorted(s) == [p \in 1..Len(s) |-> s[CHOOSE i \in 1..Len(s) : Place(s, i) = p]] \o <<>>

\* sorted_latencies[ceil(n * q)], counted from 1 and never below 1
AtRankMutant(sorted_latencies, pct) ==
    sorted_latencies[Max(1, (Len(sorted_latencies) * pct + 99) \div 100)]

\* sorted_latencies[int(n * q)] for q = pct/100: Python indexes from 0
AtRank(sorted_latencies, pct) ==
    sorted_latencies[(Len(sorted_latencies) * pct) \div 100 + 1]

\* sorted(d.keys())
RECURSIVE SortedKeys(_)
SortedKeys(ks) ==
    IF ks = {} THEN <<>>
    ELSE LET least == CHOOSE k \in ks : \A m \in ks : k <= m
         IN <<least>> \o SortedKeys(ks \ {least})

RECURSIVE Sum(_)
Sum(s) == IF s = <<>> THEN 0 ELSE Head(s) + Sum(Tail(s))

MinOf(s) == CHOOSE v \in {s[i] : i \in 1..Len(s)} : \A i \in 1..Len(s) : v <= s[i]
MaxOf(s) == CHOOSE v \in {s[i] : i \in 1..Len(s)} : \A i \in 1..Len(s) : s[i] <= v

\* the early return carries no "min", "max" or "mean"; the mean is kept as an
\* exact quotient
calculate_percentiles(ls) ==
    IF Len(ls) = 0
    THEN [p50 |-> 0, p95 |-> 0, p99 |-> 0]
    ELSE LET sorted_latencies == sorted(ls)
         IN [p50 |-> AtRank(sorted_latencies, 50),
             p95 |-> AtRank(sorted_latencies, 95),
             p99 |-> AtRank(sorted_latencies, 99),
             min |-> MinOf(sorted_latencies),
             max |-> MaxOf(sorted_latencies),
             mean |-> Rat(Sum(sorted_latencies), Len(sorted_latencies))]

(***************************************************************************)
(* Metrics.detect_anomalies                                                *)
(***************************************************************************)
\* statistics.median of a non-empty list
median(s) ==
    LET srt == sorted(s)
        n == Len(srt)
    IN IF n % 2 = 1 THEN Rat(srt[n \div 2 + 1], 1)
       ELSE Rat(srt[n \div 2] + srt[n \div 2 + 1], 2)

\* lines 180-185; the warning text is kept as the values it is formatted from
FailureRateWarnings(js) ==
    LET success_stats == get_success_rate(js)
    IN IF /\ success_stats.total >= 5
          /\ success_stats.failed > 0
          /\ success_stats.failed * 100 > 10 * success_stats.total
       THEN <<[kind |-> "High failure rate",
               failed |-> success_stats.failed,
               total |-> success_stats.total]>>
       ELSE <<>>

\* lines 189-196: the totals of the buckets in the order of their hour keys
AllTotals(hs) ==
    LET hours == SortedKeys(DOMAIN hs)
    IN [i \in 1..Len(hours) |->
          hs[hours[i]].added + hs[hours[i]].removed + hs[hours[i]].moved]

\* ten times the median, with no floor of 40
SpikeThresholdMutant(median_changes) ==
    Rat(median_changes.num * 10, median_changes.den)

\* line 207
SpikeThreshold(median_changes) ==
    IF median_changes.num > 0
    THEN IF RatLe(Rat(40, 1), Rat(median_changes.num * 10, median_changes.den))
         THEN Rat(median_changes.num * 10, median_changes.den)
         ELSE Rat(40, 1)
    ELSE Rat(40, 1)

\* the baseline leaves the most recent bucket out whenever there are two or more
SpikeWarningsMutant(hs) ==
    LET all_totals == AllTotals(hs)
    IN IF Len(all_totals) >= 2
       THEN LET baseline_totals == SubSeq(all_totals, 1, Len(all_totals) - 1)
                median_changes == median(baseline_totals)
                recent_total == all_totals[Len(all_totals)]
            IN IF ~RatLe(Rat(recent_total, 1), SpikeThreshold(median_changes))
               THEN <<[kind |-> "10x spike in changes detected",
                       recent_total |-> recent_total,
                       median |-> median_changes]>>
               ELSE <<>>
       ELSE <<>>

\* lines 187-209
SpikeWarnings(hs) ==
    LET all_totals == AllTotals(hs)
    IN IF Len(all_totals) >= 2
       THEN LET baseline_totals == IF Len(all_totals) > 2
                                   THEN SubSeq(all_totals, 1, Len(all_totals) - 1)
                                   ELSE all_totals
                median_changes == median(baseline_totals)
                recent_total == all_totals[Len(all_totals)]
            IN IF ~RatLe(Rat(recent_total, 1), SpikeThreshold(median_changes))
               THEN <<[kind |-> "10x spike in changes detected",
                       recent_total |-> recent_total,
                       median |-> median_changes]>>
               ELSE <<>>
       ELSE <<>>

\* lines 211-223
MissingDataWarnings(js, es) ==
    LET count == Cardinality({i \in 1..Len(es) : GetDefault(es[i], "type", "unknown") = "missing_data"})
        total == get_success_rate(js).total
    IN IF count > 0 /\ total > 0 /\ count * 100 > 5 * total
       THEN <<[kind |-> "High rate of missing data", count |-> count, total |-> total]>>
       ELSE <<>>

\* lines 225-239, at the instant t
StalenessWarnings(js, t) ==
    LET ended == {j \in DOMAIN js : "end_time" \in DOMAIN js[j]}
        recent_jobs == {j \in ended : t - js[j].end_time < SecondsPerHour}
    IN IF recent_jobs = {} /\ DOMAIN js # {} /\ ended # {}
       THEN LET last_time == CHOOSE e \in {js[j].end_time : j \in ended} :
                                 \A j \in ended : js[j].end_time <= e
            IN IF t - last_time > SecondsPerHour
               THEN <<[kind |-> "No job completions", gap_seconds |-> t - last_time]>>
               ELSE <<>>
       ELSE <<>>

detect_anomalies(js, hs, es, t) ==
    FailureRateWarnings(js) \o SpikeWarnings(hs) \o MissingDataWarnings(js, es)
        \o StalenessWarnings(js, t)

(***************************************************************************)
(* Metrics.get_change_statistics, Metrics.snapshot                         *)
(***************************************************************************)
\* the totals of get_change_statistics; the rounded percentages are left out
get_change_statistics(hs, js) ==
    LET hours == SortedKeys(DOMAIN hs)
        total_added == Sum([i \in 1..Len(hours) |-> GetDefault(hs[hours[i]], "added", 0)])
        total_removed == Sum([i \in 1..Len(hours) |-> GetDefault(hs[hours[i]], "removed", 0)])
        total_moved == Sum([i \in 1..Len(hours) |-> GetDefault(hs[hours[i]], "moved", 0)])
    IN [total_changes |-> total_added + total_removed + total_moved,
        total_added |-> total_added,
        total_removed |-> total_removed,
        total_moved |-> total_moved]

\* lines 292-294: what snapshot() computes before get_system_metrics
SnapshotEarly ==
    [percentiles |-> calculate_percentiles(latencies),
     success_stats |-> get_success_rate(jobs),
     anomalies |-> detect_anomalies(jobs, hourly_stats, errors, now)]

\* the value "hourly_stats" of the returned dict: the aggregator's own dict,
\* not a copy of it
HourlyStatsRef == [ref |-> "self.hourly_stats"]

\* lines 295-327: the dict snapshot() returns, built from what lines 292-294
\* computed; of "system" only active_requests comes from the aggregator
SnapshotDict(early) ==
    [total_jobs |-> Cardinality(DOMAIN jobs),
     success_rate |-> Rat(early.success_stats.success_rate.num,
                          early.success_stats.success_rate.den * 100),
     latency_p50 |-> early.percentiles.p50,
     latency_p95 |-> early.percentiles.p95,
     latency_p99 |-> early.percentiles.p99,
     latency_mean |-> GetDefault(early.percentiles, "mean", Rat(0, 1)),
     latency_min |-> GetDefault(early.percentiles, "min", 0),
     latency_max |-> GetDefault(early.percentiles, "max", 0),
     hourly_stats |-> HourlyStatsRef,
     error_count |-> Len(errors),
     errors |-> error_categories,
     error_categories |-> error_categories,
     jobs |-> [j \in DOMAIN jobs |->
                 [status |-> Get(jobs[j], "status"),
                  start_time |-> Get(jobs[j], "start_time_iso"),
                  end_time |-> Get(jobs[j], "end_time_iso"),
                  latency_seconds |-> Get(jobs[j], "latency_seconds")]],
     anomalies |-> early.anomalies,
     recent_errors |-> LastTen(errors),
     system |-> [active_requests |-> active_requests],
     change_statistics |-> get_change_statistics(hourly_stats, jobs)]

\* snapshot() run without interruption
Snapshot == SnapshotDict(SnapshotEarly)

\* what the holder of a snapshot reads in it now: "hourly_stats" is read through
\* the reference
Observed(s) == [s EXCEPT !.hourly_stats = hourly_stats]

TakeSnapshot ==
    /\ ops < MaxOps
    /\ snap' = Snapshot
    /\ ops' = ops + 1
    /\ last' = [op |-> "snapshot", raised |-> FALSE]
    /\ UNCHANGED <<jobs, latencies, hourly_stats, errors, error_categories,
                   active_requests, now, seen>>
    /\ UNCHANGED diffVars /\ UNCHANGED callVars
    /\ UNCHANGED threadVars

(***************************************************************************)
(* The methods of Metrics called from several threads.  The class takes no *)
(* lock, so a thread can be pre-empted between the load and the store of   *)
(* `self.x += 1` and of `self.x = f(self.x)`, and between two statements   *)
(* of snapshot().  Each method is cut once, at its first such point; what  *)
(* lies on one side of the cut is taken as one step.                       *)
(***************************************************************************)
StartCalls == {[op |-> "mark_start", job_id |-> j] : j \in JobIds}
EndCalls ==
    {[op |-> "mark_end", job_id |-> j, ok |-> ok, result |-> res] :
        j \in JobIds, ok \in BOOLEAN, res \in ResultArgs}
ErrorCalls == {[op |-> "mark_error", job_id |-> j, type |-> ty] : j \in JobIds, ty \in ErrorTypes}
ChangeCalls ==
    {[op |-> "record_changes", added |-> c[1], removed |-> c[2], moved |-> c[3]] : c \in ChangeArgs}
SnapshotCall == [op |-> "snapshot"]

Idle(t) == thr[t].pc = "idle"
\* thread t stands at the cut of a call of op
Inside(t, op) == thr[t].pc = "inside" /\ thr[t].call.op = op

\* thread t moves on, holding tmp
Moves(t, pcNext, call, tmp) ==
    thr' = [thr EXCEPT ![t] = [pc |-> pcNext, call |-> call, tmp |-> tmp]]

\* the state changed under the threads that are inside snapshot()
Watched ==
    views' = [u \in ThreadIds |->
                 IF Inside(u, "snapshot") THEN views[u] \cup {Snapshot'} ELSE views[u]]

\* lines 24-29, up to the load of self.active_requests
MarkStartLoad(t, call) ==
    /\ Idle(t)
    /\ jobs' = Put(jobs, call.job_id, mark_start_record(now))
    /\ seen' = seen \cup {call.job_id}
    /\ Moves(t, "inside", call, active_requests)
    /\ UNCHANGED <<latencies, hourly_stats, errors, error_categories,
                   active_requests, now, ops, last, snap>>
    /\ UNCHANGED diffVars /\ UNCHANGED callVars
    /\ Watched

\* line 29, the store
MarkStartStore(t) ==
    /\ Inside(t, "mark_start")
    /\ active_requests' = thr[t].tmp + 1
    /\ Moves(t, "done", thr[t].call, thr[t].tmp)
    /\ UNCHANGED <<jobs, latencies, hourly_stats, errors, error_categories,
                   now, ops, last, seen, snap>>
    /\ UNCHANGED diffVars /\ UNCHANGED callVars
    /\ Watched

\* lines 40-41, up to the load of self.active_requests
MarkEndLoad(t, call) ==
    /\ Idle(t)
    /\ Moves(t, "inside", call, active_requests)
    /\ UNCHANGED metricVars
    /\ UNCHANGED diffVars /\ UNCHANGED callVars
    /\ UNCHANGED views

\* line 41, the store, to line 87
MarkEndStore(t) ==
    /\ Inside(t, "mark_end")
    /\ LET job_id == thr[t].call.job_id
           ok == thr[t].call.ok
           res == thr[t].call.result
       IN /\ active_requests' = Max(0, thr[t].tmp - 1)
          /\ jobs' = IF job_id \in DOMAIN jobs
                     THEN Put(jobs, job_id, EndedJob(jobs[job_id], now, ok))
                     ELSE Put(jobs, job_id, MinimalJob(now, ok))
          /\ latencies' = IF CountsLatency(job_id, ok)
                          THEN Append(latencies, now - jobs[job_id].start_time)
                          ELSE latencies
          /\ hourly_stats' = IF TracksHour(job_id, ok, res)
                             THEN Put(hourly_stats, HourKey(now),
                                      BucketAfterEnd(HourKey(now), res.stats))
                             ELSE hourly_stats
          /\ errors' = IF ~ok
                       THEN Append(errors, processing_error(job_id, now))
                       ELSE errors
          /\ seen' = seen \cup {job_id}
    /\ Moves(t, "done", thr[t].call, thr[t].tmp)
    /\ UNCHANGED <<error_categories, now, ops, last, snap>>
    /\ UNCHANGED diffVars /\ UNCHANGED callVars
    /\ Watched

\* lines 91-97, up to self.error_categories.get(error_type, 0)
MarkErrorLoad(t, call) ==
    /\ Idle(t)
    /\ errors' = Append(errors, [job_id |-> call.job_id, timestamp |-> Iso(now),
                                 type |-> call.type])
    /\ Moves(t, "inside", call, GetDefault(error_categories, call.type, 0))
    /\ UNCHANGED <<jobs, latencies, hourly_stats, error_categories, active_requests,
                   now, ops, last, seen, snap>>
    /\ UNCHANGED diffVars /\ UNCHANGED callVars
    /\ Watched

\* line 97, the store
MarkErrorStore(t) ==
    /\ Inside(t, "mark_error")
    /\ error_categories' = Put(error_categories, thr[t].call.type, thr[t].tmp + 1)
    /\ Moves(t, "done", thr[t].call, thr[t].tmp)
    /\ UNCHANGED <<jobs, latencies, hourly_stats, errors, active_requests,
                   now, ops, last, seen, snap>>
    /\ UNCHANGED diffVars /\ UNCHANGED callVars
    /\ Watched

\* lines 245-253, up to the load of self.hourly_stats[hour_key]["added"]
RecordChangesLoad(t, call) ==
    /\ Idle(t)
    /\ LET hour_key == HourKey(now)
           bucket == IF hour_key \in DOMAIN hourly_stats THEN hourly_stats[hour_key]
                     ELSE [added |-> 0, removed |-> 0, moved |-> 0]
       IN /\ hourly_stats' = Put(hourly_stats, hour_key, bucket)
          /\ Moves(t, "inside", call, bucket.added)
    /\ UNCHANGED <<jobs, latencies, errors, error_categories, active_requests,
                   now, ops, last, seen, snap>>
    /\ UNCHANGED diffVars /\ UNCHANGED callVars
    /\ Watched

\* line 253, the store, to line 255
RecordChangesStore(t) ==
    /\ Inside(t, "record_changes")
    /\ LET hour_key == HourKey(now)
       IN hourly_stats' = Put(hourly_stats, hour_key,
                              [hourly_stats[hour_key] EXCEPT
                                  !.added = thr[t].tmp + thr[t].call.added,
                                  !.removed = @ + thr[t].call.removed,
                                  !.moved = @ + thr[t].call.moved])
    /\ Moves(t, "done", thr[t].call, thr[t].tmp)
    /\ UNCHANGED <<jobs, latencies, errors, error_categories, active_requests,
                   now, ops, last, seen, snap>>
    /\ UNCHANGED diffVars /\ UNCHANGED callVars
    /\ Watched

\* lines 292-294: percentiles, success_stats and anomalies are computed
SnapshotCompute(t) ==
    /\ Idle(t)
    /\ Moves(t, "inside", SnapshotCall, SnapshotEarly)
    /\ views' = [views EXCEPT ![t] = {Snapshot}]
    /\ UNCHANGED metricVars
    /\ UNCHANGED diffVars /\ UNCHANGED callVars

\* lines 295-327: get_system_metrics, which sleeps 0.1 s in cpu_percent, then the
\* dict is built and returned
SnapshotReturn(t) ==
    /\ Inside(t, "snapshot")
    /\ snap' = SnapshotDict(thr[t].tmp)
    /\ Moves(t, "done", thr[t].call, SnapshotDict(thr[t].tmp))
    /\ UNCHANGED <<jobs, latencies, hourly_stats, errors, error_categories,
                   active_requests, now, ops, last, seen>>
    /\ UNCHANGED diffVars /\ UNCHANGED callVars
    /\ UNCHANGED views

NextThreads ==
    \E t \in ThreadIds :
        \/ \E call \in StartCalls : MarkStartLoad(t, call)
        \/ MarkStartStore(t)
        \/ \E call \in EndCalls : MarkEndLoad(t, call)
        \/ MarkEndStore(t)
        \/ \E call \in ErrorCalls : MarkErrorLoad(t, call)
        \/ MarkErrorStore(t)
        \/ \E call \in ChangeCalls : RecordChangesLoad(t, call)
        \/ RecordChangesStore(t)
        \/ SnapshotCompute(t)
        \/ SnapshotReturn(t)

(***************************************************************************)
(* The aggregator under any order of calls                                 *)
(***************************************************************************)
\* a function called on its own: before it returns, and what it returned
NotReturned == [returned |-> FALSE]
Returns(value) == [returned |-> TRUE, value |-> value]

\* no function is called on its own
CallsIdle ==
    /\ args = <<>>
    /\ ret = NotReturned

DiffIdle ==
    /\ a = <<>>
    /\ b = <<>>
    /\ client = FALSE
    /\ pc = "idle"
    /\ result = [raised |-> FALSE]
    /\ response = NotCalled

Init == DiffIdle /\ CallsIdle /\ MetricsInit

Next ==
    \/ \E j \in JobIds : MarkStart(j)
    \/ \E j \in JobIds, ok \in BOOLEAN, res \in ResultArgs : MarkEnd(j, ok, res)
    \/ \E j \in JobIds, ty \in ErrorTypes : MarkError(j, ty)
    \/ \E c \in ChangeArgs : RecordChanges(c[1], c[2], c[3])
    \/ \E t \in ClockValues : Tick(t)
    \/ TakeSnapshot

Spec == Init /\ [][Next]_vars

\* the same aggregator, its methods called from MaxThreads threads at once
SpecThreads == Init /\ [][NextThreads]_vars

(***************************************************************************)
(* diff as called on a pair of snapshots                                   *)
(***************************************************************************)
\* lines 96, 207: diff gets as far as the Gemini call
GeminiCalled(r) ==
    /\ client
    /\ ~r.raised
    /\ ~(r.added = <<>> /\ r.removed = <<>> /\ r.moved = <<>>)

Diff(outcome) ==
    /\ pc = "call"
    /\ pc' = "done"
    /\ result' = diff(a, b, client, outcome)
    /\ response' = IF GeminiCalled(diff(a, b, client, outcome)) THEN outcome ELSE NotCalled
    /\ UNCHANGED <<a, b, client>>
    /\ UNCHANGED metricVars
    /\ UNCHANGED threadVars
    /\ UNCHANGED callVars

\* pairs of snapshots of at most MaxObjs objects together
InitDiff ==
    /\ \E k \in 0..MaxObjs : \E m \in 0..(MaxObjs - k) :
          /\ a \in [1..k -> Objects]
          /\ b \in [1..m -> Objects]
    /\ client \in BOOLEAN
    /\ pc = "call"
    /\ result = [raised |-> FALSE]
    /\ response = NotCalled
    /\ CallsIdle
    /\ MetricsInit

NextDiff == \E outcome \in GeminiOutcomes : Diff(outcome)

SpecDiff == InitDiff /\ [][NextDiff]_vars

\* a snapshot of at most MaxLen objects compared with itself
InitSelf ==
    /\ \E k \in 0..MaxLen : a \in [1..k -> Objects]
    /\ b = a
    /\ client \in BOOLEAN
    /\ pc = "call"
    /\ result = [raised |-> FALSE]
    /\ response = NotCalled
    /\ CallsIdle
    /\ MetricsInit

SpecSelf == InitSelf /\ [][NextDiff]_vars

(***************************************************************************)
(* diff with the Gemini client configured                                  *)
(***************************************************************************)
\* objects with an id, a type and both coordinates
DrawnObjects == {o \in IdObjects : ~IsNone(Get(o, "x")) /\ ~IsNone(Get(o, "y"))}

InitCompose ==
    /\ \E k \in 0..MaxObjs : \E m \in 0..(MaxObjs - k) :
          /\ a \in [1..k -> DrawnObjects]
          /\ b \in [1..m -> DrawnObjects]
    /\ client = TRUE
    /\ pc = "call"
    /\ result = [raised |-> FALSE]
    /\ response = NotCalled
    /\ CallsIdle
    /\ MetricsInit

NextCompose == \E outcome \in GeminiResponses : Diff(outcome)

SpecCompose == InitCompose /\ [][NextCompose]_vars

(***************************************************************************)
(* diff on snapshots in which ids repeat                                   *)
(***************************************************************************)
\* objects told apart by id and x
OrderObjects == {[id |-> i, type |-> "wall", x |-> Num(x), y |-> Num(0)] : i \in ObjIds, x \in 0..1}

InitOrder ==
    /\ \E k \in 0..MaxSeq : a \in [1..k -> OrderObjects]
    /\ \E m \in 0..MaxSeq : b \in [1..m -> OrderObjects]
    /\ client = FALSE
    /\ pc = "call"
    /\ result = [raised |-> FALSE]
    /\ response = NotCalled
    /\ CallsIdle
    /\ MetricsInit

SpecOrder == InitOrder /\ [][NextDiff]_vars

(***************************************************************************)
(* The aggregator after a fleet of jobs was tracked                        *)
(***************************************************************************)
FleetNames == <<"job-001", "job-002", "job-003", "job-004", "job-005",
                "job-006", "job-007", "job-008">>
FleetStatuses == {"running", "success", "failed"}

\* the aggregator after mark_end(FleetNames[i], st[i] = "success") for the jobs
\* of st that are not running, in the order of i, and then mark_start for those
\* that are, all at instant 0: no job that ended had a start-mark
FleetState(st) ==
    LET n == Len(st)
        failed == SortedKeys({i \in 1..n : st[i] = "failed"})
    IN /\ jobs = [j \in {FleetNames[i] : i \in 1..n} |->
                    LET i == CHOOSE k \in 1..n : FleetNames[k] = j
                    IN IF st[i] = "running" THEN mark_start_record(0)
                       ELSE MinimalJob(0, st[i] = "success")]
       /\ errors = [k \in 1..Len(failed) |-> processing_error(FleetNames[failed[k]], 0)]
       /\ active_requests = Cardinality({i \in 1..n : st[i] = "running"})
       /\ seen = {FleetNames[i] : i \in 1..n}

InitFleet ==
    /\ DiffIdle
    /\ CallsIdle
    /\ \E n \in 0..MaxFleet : \E st \in [1..n -> FleetStatuses] : FleetState(st)
    /\ latencies = <<>>
    /\ hourly_stats = <<>>
    /\ error_categories = <<>>
    /\ now = 0
    /\ ops = 0
    /\ last = [op |-> "init"]
    /\ snap = [op |-> "none"]
    /\ ThreadsIdle

NextFleet ==
    \/ \E j \in JobIds : MarkStart(j)
    \/ TakeSnapshot

SpecFleet == InitFleet /\ [][NextFleet]_vars

(***************************************************************************)
(* The aggregator after many jobs and some missing-data events             *)
(***************************************************************************)
ManyNames ==
    <<"job-001", "job-002", "job-003", "job-004", "job-005",
      "job-006", "job-007", "job-008", "job-009", "job-010",
      "job-011", "job-012", "job-013", "job-014", "job-015",
      "job-016", "job-017", "job-018", "job-019", "job-020",
      "job-021", "job-022", "job-023", "job-024", "job-025",
      "job-026">>

\* one mark_error event of the worker for an input it could not read
missing_data_error(job_id, t) == [job_id |-> job_id, timestamp |-> Iso(t), type |-> "missing_data"]

\* the aggregator after mark_error(ManyNames[1], "missing_data") m times,
\* mark_end(ManyNames[i], ok=True) for the first c names and mark_start for
\* the next r names, all at instant 0
MissingState(c, r, m) ==
    /\ jobs = [j \in {ManyNames[i] : i \in 1..(c + r)} |->
                 LET i == CHOOSE k \in 1..(c + r) : ManyNames[k] = j
                 IN IF i <= c THEN MinimalJob(0, TRUE) ELSE mark_start_record(0)]
    /\ errors = [k \in 1..m |-> missing_data_error(ManyNames[1], 0)]
    /\ error_categories = IF m > 0 THEN ("missing_data" :> m) ELSE <<>>
    /\ active_requests = r
    /\ seen = {ManyNames[i] : i \in 1..(c + r)}

InitMissing ==
    /\ DiffIdle
    /\ CallsIdle
    /\ \E c \in 0..MaxDone, r \in 0..MaxPending, m \in 0..MaxMissing : MissingState(c, r, m)
    /\ latencies = <<>>
    /\ hourly_stats = <<>>
    /\ now = 0
    /\ ops = 0
    /\ last = [op |-> "init"]
    /\ snap = [op |-> "none"]
    /\ ThreadsIdle

NextMissing ==
    \/ \E j \in JobIds : MarkStart(j)
    \/ MarkError("job-001", "missing_data")
    \/ TakeSnapshot

SpecMissing == InitMissing /\ [][NextMissing]_vars

(***************************************************************************)
(* GET /metrics                                                            *)
(***************************************************************************)
\* "warning" wins over "degraded"
HealthStatusMutant(anomalies, success_stats) ==
    IF Len(anomalies) > 0 THEN "warning"
    ELSE IF success_stats.total > 0 /\ ~RatLe(Rat(50, 1), success_stats.success_rate)
         THEN "degraded"
         ELSE "healthy"

\* main.py lines 403-408
HealthStatus(anomalies, success_stats) ==
    IF success_stats.total > 0 /\ ~RatLe(Rat(50, 1), success_stats.success_rate)
    THEN "degraded"
    ELSE IF Len(anomalies) > 0 THEN "warning" ELSE "healthy"

\* the handler of GET /metrics, run without interruption; the "timestamp" of
\* the response is left out
metrics ==
    /\ LET snapshot == Snapshot
           anomalies == detect_anomalies(jobs, hourly_stats, errors, now)
           success_stats == get_success_rate(jobs)
       IN ret' = Returns([status |-> HealthStatus(anomalies, success_stats),
                          warnings |-> anomalies] @@ snapshot)
    /\ UNCHANGED args
    /\ UNCHANGED diffVars
    /\ UNCHANGED metricVars
    /\ UNCHANGED threadVars

\* GET /metrics after a fleet of jobs was tracked
NextHealth ==
    \/ \E j \in JobIds : MarkStart(j)
    \/ metrics

SpecHealth == InitFleet /\ [][NextHealth]_vars

(***************************************************************************)
(* The handlers of POST /analyze, POST /process and POST /worker.  Each is *)
(* an `async def` and awaits nothing between its first and its last call   *)
(* of METRICS, so it runs on the event loop as one step.                   *)
(***************************************************************************)
\* the fields of METRICS as one value
Aggregator ==
    [jobs |-> jobs, latencies |-> latencies, hourly_stats |-> hourly_stats,
     errors |-> errors, error_categories |-> error_categories,
     active_requests |-> active_requests]

\* Metrics.mark_start at instant t
mark_start(m, job_id, t) ==
    [m EXCEPT !.jobs = Put(m.jobs, job_id, mark_start_record(t)),
              !.active_requests = @ + 1]

\* Metrics.mark_error at instant t
mark_error(m, job_id, error_type, t) ==
    [m EXCEPT !.errors = Append(@, [job_id |-> job_id, timestamp |-> Iso(t), type |-> error_type]),
              !.error_categories = Put(@, error_type, GetDefault(@, error_type, 0) + 1)]

\* line 58 is reached: the hourly bucket is updated
mark_end_tracks(m, job_id, ok, res) ==
    /\ job_id \in DOMAIN m.jobs
    /\ "start_time" \in DOMAIN m.jobs[job_id]
    /\ ok
    /\ Truthy(res)
    /\ "stats" \in DOMAIN res

\* line 72 raises KeyError
mark_end_raises(m, job_id, ok, res, t) ==
    /\ mark_end_tracks(m, job_id, ok, res)
    /\ HourKey(t) \in DOMAIN m.hourly_stats
    /\ "jobs" \notin DOMAIN m.hourly_stats[HourKey(t)]

\* Metrics.mark_end at instant t
mark_end(m, job_id, ok, res, t) ==
    LET known == job_id \in DOMAIN m.jobs
        timed == known /\ "start_time" \in DOMAIN m.jobs[job_id]
        hour_key == HourKey(t)
        bucket == IF hour_key \in DOMAIN m.hourly_stats THEN m.hourly_stats[hour_key] ELSE NewBucket
        summed == [bucket EXCEPT !.added = @ + GetDefault(res.stats, "added_count", 0),
                                 !.removed = @ + GetDefault(res.stats, "removed_count", 0),
                                 !.moved = @ + GetDefault(res.stats, "moved_count", 0)]
        filled == IF "jobs" \in DOMAIN bucket THEN [summed EXCEPT !.jobs = @ + 1] ELSE summed
    IN [jobs |-> IF known THEN Put(m.jobs, job_id, EndedJob(m.jobs[job_id], t, ok))
                 ELSE Put(m.jobs, job_id, MinimalJob(t, ok)),
        latencies |-> IF timed /\ ok THEN Append(m.latencies, t - m.jobs[job_id].start_time)
                      ELSE m.latencies,
        hourly_stats |-> IF mark_end_tracks(m, job_id, ok, res)
                         THEN Put(m.hourly_stats, hour_key, filled)
                         ELSE m.hourly_stats,
        errors |-> IF ~ok THEN Append(m.errors, processing_error(job_id, t)) ELSE m.errors,
        error_categories |-> m.error_categories,
        active_requests |-> Max(0, m.active_requests - 1)]

\* the calls of METRICS a handler issues
StartOf(job_id) == [op |-> "mark_start", job_id |-> job_id]
ErrorOf(job_id, error_type) == [op |-> "mark_error", job_id |-> job_id, type |-> error_type]
EndOf(job_id, ok, res) == [op |-> "mark_end", job_id |-> job_id, ok |-> ok, result |-> res]

Apply(m, call, t) ==
    CASE call.op = "mark_start" -> mark_start(m, call.job_id, t)
      [] call.op = "mark_error" -> mark_error(m, call.job_id, call.type, t)
      [] call.op = "mark_end" -> mark_end(m, call.job_id, call.ok, call.result, t)

\* a handler under way: the aggregator it has reached and the calls it has issued
Entered(m) == [m |-> m, calls |-> <<>>]
Do(r, call, t) == [m |-> Apply(r.m, call, t), calls |-> Append(r.calls, call)]

\* the handler returns: METRICS is as the handler left it
Install(r) ==
    /\ jobs' = r.m.jobs
    /\ latencies' = r.m.latencies
    /\ hourly_stats' = r.m.hourly_stats
    /\ errors' = r.m.errors
    /\ error_categories' = r.m.error_categories
    /\ active_requests' = r.m.active_requests
    /\ seen' = seen \cup {r.calls[i].job_id : i \in 1..Len(r.calls)}

\* what diff hands to mark_end: the result always carries "stats"
DiffResult == [stats |-> StatsOf(2, 1, 3)]

\* an outer handler that marks nothing
OuterExceptMutant(r, job_id, t) == r

\* worker, lines 569-578: the outer `except Exception`; an exception of
\* mark_end itself is swallowed
OuterExcept(r, job_id, t) == Do(r, EndOf(job_id, FALSE, None), t)

\* worker, lines 492-507, 510-525, 531-549: the error result is written, then
\* the error and the end are marked; a write that fails is caught by the outer
\* handler
ReportError(r, req, error_type, t) ==
    IF req.write_ok
    THEN Do(Do(r, ErrorOf(req.job_id, error_type), t), EndOf(req.job_id, FALSE, None), t)
    ELSE OuterExcept(r, req.job_id, t)

\* a push request: the envelope (malformed, without the URIs, or whole), what
\* happens to the inputs, and whether the write to storage succeeds
WorkerOutcomes == {"a missing", "b missing", "invalid", "diff raises", "ok"}
WorkerRequests ==
    [envelope : {"malformed"}, job_id : {"unknown"}, outcome : {"none"}, write_ok : {TRUE}]
    \cup [envelope : {"no uris"}, job_id : JobIds, outcome : {"none"}, write_ok : {TRUE}]
    \cup [envelope : {"whole"}, job_id : JobIds, outcome : WorkerOutcomes, write_ok : BOOLEAN]

\* worker, lines 477-578
worker_run(m, req, t) ==
    IF req.envelope # "whole" THEN OuterExcept(Entered(m), req.job_id, t)
    ELSE LET started == Do(Entered(m), StartOf(req.job_id), t)
         IN CASE req.outcome \in {"a missing", "b missing"} ->
                    ReportError(started, req, "missing_data", t)
              [] req.outcome = "invalid" ->
                    ReportError(started, req, "validation_error", t)
              [] req.outcome = "diff raises" ->
                    OuterExcept(started, req.job_id, t)
              [] req.outcome = "ok" ->
                    IF ~req.write_ok THEN OuterExcept(started, req.job_id, t)
                    ELSE LET ended == Do(started, EndOf(req.job_id, TRUE, DiffResult), t)
                         IN IF mark_end_raises(started.m, req.job_id, TRUE, DiffResult, t)
                            THEN OuterExcept(ended, req.job_id, t)
                            ELSE ended

worker(req) ==
    /\ ops < MaxRequests
    /\ Install(worker_run(Aggregator, req, now))
    /\ ops' = ops + 1
    /\ last' = [op |-> "worker", request |-> req,
                calls |-> worker_run(Aggregator, req, now).calls, raised |-> FALSE]
    /\ UNCHANGED <<now, snap>>
    /\ UNCHANGED diffVars /\ UNCHANGED callVars
    /\ UNCHANGED threadVars

\* a request to /analyze: its job id is a fresh uuid4
UuidIds == {"uuid-1", "uuid-2", "uuid-3"}
AnalyzeOutcomes == {"invalid", "diff raises", "ok"}
AnalyzeRequests == [job_id : UuidIds, outcome : AnalyzeOutcomes]

\* analyze_local, lines 320-356
analyze_run(m, req, t) ==
    LET started == Do(Entered(m), StartOf(req.job_id), t)
    IN CASE req.outcome = "invalid" -> Do(started, EndOf(req.job_id, FALSE, None), t)
         [] req.outcome = "diff raises" -> Do(started, EndOf(req.job_id, FALSE, None), t)
         [] req.outcome = "ok" ->
               LET ended == Do(started, EndOf(req.job_id, TRUE, DiffResult), t)
               IN IF mark_end_raises(started.m, req.job_id, TRUE, DiffResult, t)
                  THEN Do(ended, EndOf(req.job_id, FALSE, None), t)
                  ELSE ended

analyze_local(req) ==
    /\ ops < MaxRequests
    /\ req.job_id \notin seen
    /\ Install(analyze_run(Aggregator, req, now))
    /\ ops' = ops + 1
    /\ last' = [op |-> "analyze_local", request |-> req,
                calls |-> analyze_run(Aggregator, req, now).calls, raised |-> FALSE]
    /\ UNCHANGED <<now, snap>>
    /\ UNCHANGED diffVars /\ UNCHANGED callVars
    /\ UNCHANGED threadVars

\* process, lines 438-457: a start-mark for every pair that was published;
\* published holds their job ids
process_run(m, published, t) ==
    LET RECURSIVE Marked(_)
        Marked(k) == IF k = 0 THEN Entered(m) ELSE Do(Marked(k - 1), StartOf(published[k]), t)
    IN Marked(Len(published))

process(published) ==
    /\ ops < MaxRequests
    /\ Install(process_run(Aggregator, published, now))
    /\ ops' = ops + 1
    /\ last' = [op |-> "process", calls |-> process_run(Aggregator, published, now).calls,
                raised |-> FALSE]
    /\ UNCHANGED <<now, snap>>
    /\ UNCHANGED diffVars /\ UNCHANGED callVars
    /\ UNCHANGED threadVars

\* the manifests of /process: one or two pairs published
Manifests == {<<j>> : j \in JobIds} \cup {<<j, k>> : j \in JobIds, k \in JobIds}

NextServer ==
    \/ \E req \in WorkerRequests : worker(req)
    \/ \E req \in AnalyzeRequests : analyze_local(req)
    \/ \E published \in Manifests : process(published)
    \/ \E t \in ClockValues : Tick(t)

SpecServer == Init /\ [][NextServer]_vars

(***************************************************************************)
(* get_direction called on a pair of deltas                                *)
(***************************************************************************)
Deltas == (0 - MaxDelta)..MaxDelta

InitDirection ==
    /\ args \in [x_delta : Deltas, y_delta : Deltas]
    /\ ret = NotReturned
    /\ DiffIdle
    /\ MetricsInit

GetDirection ==
    /\ ret = NotReturned
    /\ ret' = Returns(get_direction(args.x_delta, args.y_delta))
    /\ UNCHANGED args
    /\ UNCHANGED diffVars
    /\ UNCHANGED metricVars
    /\ UNCHANGED threadVars

NextDirection == GetDirection

SpecDirection == InitDirection /\ [][NextDirection]_vars

(***************************************************************************)
(* generate_summary_simple called on three lists of changes                *)
(***************************************************************************)
SummaryIds == <<"A1", "D1", "W1", "W2", "W3">>
SummaryTypes == {"wall", "door"}
\* an object of a snapshot: its "type" key may be absent
TypeChoices == {("type" :> t) : t \in SummaryTypes} \cup {EmptyDict}
\* where a single added object is: at (1, 0), or with x absent and y null
PlaceChoices == {("x" :> Num(1)) @@ ("y" :> Num(0)), ("y" :> None)}
SummaryDeltas == {-2, 0, 1}

\* lists of n objects with the given type parts, the i-th with the i-th id
ObjectLists(n, types, places) ==
    {[i \in 1..n |-> ("id" :> SummaryIds[i]) @@ ty[i] @@ pl] :
        ty \in [1..n -> types], pl \in places}

AddedLists ==
    UNION {ObjectLists(n, TypeChoices, IF n = 1 THEN PlaceChoices ELSE {("x" :> Num(1)) @@ ("y" :> Num(0))}) :
              n \in 0..MaxItems}

RemovedLists ==
    UNION {ObjectLists(n, IF n = 1 THEN TypeChoices ELSE {("type" :> t) : t \in SummaryTypes},
                       {("x" :> Num(0)) @@ ("y" :> Num(0))}) : n \in 0..MaxItems}

\* the moved records diff builds: one object moved by a non-zero delta, or
\* several objects moved by (1, 0)
MovedLists ==
    {<<>>}
    \cup {<<MovedRecord(SummaryIds[1], ("x" :> Num(0)) @@ ("y" :> Num(0)),
                        ty @@ ("x" :> Num(d[1])) @@ ("y" :> Num(d[2])))>> :
              ty \in TypeChoices,
              d \in {e \in SummaryDeltas \X SummaryDeltas : e # <<0, 0>>}}
    \cup {[i \in 1..n |-> MovedRecord(SummaryIds[i], ("x" :> Num(0)) @@ ("y" :> Num(0)),
                                       ("type" :> "wall") @@ ("x" :> Num(1)) @@ ("y" :> Num(0)))] :
              n \in 2..MaxItems}

InitSummary ==
    /\ args \in [added : AddedLists, removed : RemovedLists, moved : MovedLists]
    /\ ret = NotReturned
    /\ DiffIdle
    /\ MetricsInit

GenerateSummarySimple ==
    /\ ret = NotReturned
    /\ ret' = Returns(generate_summary_simple(args.added, args.removed, args.moved))
    /\ UNCHANGED args
    /\ UNCHANGED diffVars
    /\ UNCHANGED metricVars
    /\ UNCHANGED threadVars

NextSummary == GenerateSummarySimple

SpecSummary == InitSummary /\ [][NextSummary]_vars

(***************************************************************************)
(* Properties of diff                                                      *)
(***************************************************************************)
Returned == pc = "done" /\ ~result.raised

\* the ids of the objects of a snapshot that have one
IdsOf(snapshot) == {snapshot[i].id : i \in {k \in 1..Len(snapshot) : "id" \in DOMAIN snapshot[k]}}
\* the ids of a sequence of reported records
SeqIds(records) == {records[i].id : i \in 1..Len(records)}
\* the last object of a snapshot with that id
LastWithId(snapshot, id) ==
    LET at == {k \in 1..Len(snapshot) : "id" \in DOMAIN snapshot[k] /\ snapshot[k].id = id}
    IN snapshot[CHOOSE k \in at : \A m \in at : m <= k]

\* C1: when diff(A, B) returns, `added` holds exactly the ids of B absent from A,
\* `removed` exactly the ids of A absent from B, and no id is in two of added,
\* removed and moved.
C1_AddedRemovedExact ==
    Returned =>
        /\ SeqIds(result.added) = IdsOf(b) \ IdsOf(a)
        /\ SeqIds(result.removed) = IdsOf(a) \ IdsOf(b)
        /\ SeqIds(result.added) \cap SeqIds(result.removed) = {}
        /\ SeqIds(result.added) \cap SeqIds(result.moved) = {}
        /\ SeqIds(result.removed) \cap SeqIds(result.moved) = {}

C1_Witness ==
    /\ Returned
    /\ result.added # <<>>
    /\ result.removed # <<>>
    /\ IdsOf(a) # {}
    /\ IdsOf(b) # {}

\* x or y differs between the two records compared for the id
Differs(id) ==
    \/ Get(LastWithId(a, id), "x") # Get(LastWithId(b, id), "x")
    \/ Get(LastWithId(a, id), "y") # Get(LastWithId(b, id), "y")

\* C2: when diff(A, B) returns, an id is in `moved` iff it is in both snapshots and
\* its x or y differs between the two records; an id of both with equal x and y is
\* in none of added, removed and moved.
C2_MovedIffPositionDiffers ==
    Returned =>
        \A id \in ObjIds :
            /\ id \in SeqIds(result.moved)
                  <=> (id \in IdsOf(a) /\ id \in IdsOf(b) /\ Differs(id))
            /\ (id \in IdsOf(a) /\ id \in IdsOf(b) /\ ~Differs(id))
                  => id \notin SeqIds(result.added) \cup SeqIds(result.removed)
                                 \cup SeqIds(result.moved)

C2_Witness ==
    /\ Returned
    /\ Len(result.moved) = 1
    /\ Get(LastWithId(a, result.moved[1].id), "x") = Get(LastWithId(b, result.moved[1].id), "x")
    /\ Get(LastWithId(a, result.moved[1].id), "y") # Get(LastWithId(b, result.moved[1].id), "y")

\* C3: diff(X, X) returns empty added, removed and moved, total_changes 0 and the
\* summary "No changes detected.", with or without the Gemini client (SpecSelf).
C3_SelfDiffIsEmpty ==
    pc = "done" =>
        /\ ~result.raised
        /\ result.added = <<>>
        /\ result.removed = <<>>
        /\ result.moved = <<>>
        /\ result.stats.total_changes = 0
        /\ result.summary = NoChangesText

\* a snapshot with a repeated id and with coordinates lacking, client configured
C3_Witness ==
    /\ pc = "done"
    /\ client
    /\ Len(a) = 2
    /\ "id" \in DOMAIN a[1] /\ "id" \in DOMAIN a[2]
    /\ a[1].id = a[2].id
    /\ a[1] # a[2]
    /\ "x" \notin DOMAIN a[2]
    /\ result.summary = NoChangesText

\* C4: in every moved record delta.x = to.x - from.x and delta.y = to.y - from.y,
\* with from and to the endpoints stored in the record.
C4_DeltaIsDifference ==
    Returned =>
        \A i \in 1..Len(result.moved) :
            LET m == result.moved[i]
            IN /\ CanSub(m.to.x, m.from.x) /\ m.delta.x = Sub(m.to.x, m.from.x)
               /\ CanSub(m.to.y, m.from.y) /\ m.delta.y = Sub(m.to.y, m.from.y)

\* C5: diff(A, B) returns a ChangeSet for every pair of snapshots: it never raises.
C5_DiffNeverRaises == pc = "done" => ~result.raised

(***************************************************************************)
(* Properties of the aggregator                                            *)
(***************************************************************************)
Terminal == {"success", "failed"}
IsRunning(j) == j \in DOMAIN jobs /\ jobs[j].status = "running"
IsTerminal(j) == j \in DOMAIN jobs /\ jobs[j].status \in Terminal

\* this step is a call of mark_start on a job that is running
DuplicateStart ==
    /\ ops' = ops + 1
    /\ last'.op = "mark_start"
    /\ IsRunning(last'.job_id)

\* C6: mark_start on a job that is already running leaves the active-request
\* counter as it was.
C6_DuplicateStartKeepsActive ==
    [][DuplicateStart => active_requests' = active_requests]_vars

\* this step is a second mark_end with the arguments of the call before it
RedeliveredEnd ==
    /\ ops' = ops + 1
    /\ last.op = "mark_end"
    /\ last'.op = "mark_end"
    /\ last'.job_id = last.job_id
    /\ last'.ok = last.ok
    /\ last'.result = last.result

\* C7: a second mark_end with the same arguments leaves the job's status, the
\* latency list, the hourly buckets, the error log and the active counter as the
\* first left them.
C7_EndIsIdempotent ==
    [][RedeliveredEnd =>
          /\ jobs'[last.job_id].status = jobs[last.job_id].status
          /\ latencies' = latencies
          /\ hourly_stats' = hourly_stats
          /\ errors' = errors
          /\ active_requests' = active_requests]_vars

\* C8: a job record in state success or failed stays in one of the two and keeps
\* an end timestamp, whatever is called next.
C8_TerminalIsFinal ==
    [][\A j \in JobIds :
          IsTerminal(j) =>
              /\ jobs'[j].status \in Terminal
              /\ "end_time" \in DOMAIN jobs'[j]]_vars

\* how often v occurs in the sequence
Occurrences(seq, v) == Cardinality({i \in 1..Len(seq) : seq[i] = v})
\* the jobs now in state success, started, whose recorded latency is v
SuccessfulWithLatency(v) ==
    {j \in DOMAIN jobs : /\ jobs[j].status = "success"
                         /\ "start_time" \in DOMAIN jobs[j]
                         /\ "latency_seconds" \in DOMAIN jobs[j]
                         /\ jobs[j].latency_seconds = v}

\* C9: the latency list holds at most one latency per job now in state success
\* that had a start timestamp, and none for any other job.
C9_LatenciesOfSuccessfulJobs ==
    \A i \in 1..Len(latencies) :
        Occurrences(latencies, latencies[i]) <= Cardinality(SuccessfulWithLatency(latencies[i]))

\* C10: snapshot().total_jobs is the number of distinct job ids given to mark_start
\* or mark_end, and snapshot().success_rate is the number of records in state
\* success over total_jobs, a fraction in [0, 1], and 0 when there is no record.
C10_SnapshotSuccessRate ==
    last.op = "snapshot" =>
        /\ snap.total_jobs = Cardinality(seen)
        /\ snap.success_rate.den > 0
        /\ RatLe(Rat(0, 1), snap.success_rate)
        /\ RatLe(snap.success_rate, Rat(1, 1))
        /\ seen = {} => RatEq(snap.success_rate, Rat(0, 1))
        /\ seen # {} => RatEq(snap.success_rate,
                              Rat(Cardinality({j \in seen : jobs[j].status = "success"}),
                                  Cardinality(seen)))

\* one job ended successfully beside one still running: the rate is 1/2
C10_Witness ==
    /\ last.op = "snapshot"
    /\ snap.total_jobs = 2
    /\ RatEq(snap.success_rate, Rat(1, 2))
    /\ \E j \in JobIds : IsRunning(j)

(***************************************************************************)
(* The aggregator after one job was run again and again                    *)
(***************************************************************************)
\* the aggregator after mark_start("job-001"), the time ls[i] passing and
\* mark_end("job-001", True), for each i in turn
LatencyState(ls) ==
    LET k == Len(ls)
        t == Sum(ls)
    IN /\ latencies = ls
       /\ now = t
       /\ jobs = IF k = 0 THEN <<>>
                 ELSE ("job-001" :> EndedJob(mark_start_record(t - ls[k]), t, TRUE))
       /\ seen = IF k = 0 THEN {} ELSE {"job-001"}

\* n, n-1, ..., 1
Countdown(n) == [i \in 1..n |-> n + 1 - i]

InitLatency ==
    /\ DiffIdle
    /\ CallsIdle
    /\ \/ \E k \in 0..MaxLats : \E ls \in [1..k -> 0..MaxLatency] : LatencyState(ls)
       \/ \E n \in (MaxLats + 1)..MaxRun : LatencyState(Countdown(n))
    /\ hourly_stats = <<>>
    /\ errors = <<>>
    /\ error_categories = <<>>
    /\ active_requests = 0
    /\ ops = 0
    /\ last = [op |-> "init"]
    /\ snap = [op |-> "none"]
    /\ ThreadsIdle

NextLatency == TakeSnapshot

SpecLatency == InitLatency /\ [][NextLatency]_vars

(***************************************************************************)
(* The aggregator after changes were recorded hour after hour              *)
(***************************************************************************)
\* the total of the changes recorded in one hour: values on both sides of the
\* floor of 40 and of ten times a median of 4, 4.5 and 5
HourTotals == {0, 4, 5, 40, 41, 46, 51}

\* the aggregator after record_changes(added, removed, moved), the three summing
\* to ts[i], in hour i - 1 for each i in turn
SpikeState(ts) ==
    /\ hourly_stats = [h \in 0..(Len(ts) - 1) |->
                         [added |-> ts[h + 1] - (ts[h + 1] \div 2) - (ts[h + 1] % 2),
                          removed |-> ts[h + 1] \div 2,
                          moved |-> ts[h + 1] % 2]]
    /\ now = IF Len(ts) = 0 THEN 0 ELSE (Len(ts) - 1) * SecondsPerHour

InitSpike ==
    /\ DiffIdle
    /\ CallsIdle
    /\ \E k \in 0..MaxHours : \E ts \in [1..k -> HourTotals] : SpikeState(ts)
    /\ jobs = <<>>
    /\ latencies = <<>>
    /\ errors = <<>>
    /\ error_categories = <<>>
    /\ active_requests = 0
    /\ ops = 0
    /\ last = [op |-> "init"]
    /\ seen = {}
    /\ snap = [op |-> "none"]
    /\ ThreadsIdle

NextSpike ==
    \/ \E c \in ChangeArgs : RecordChanges(c[1], c[2], c[3])
    \/ TakeSnapshot

SpecSpike == InitSpike /\ [][NextSpike]_vars

(***************************************************************************)
(* Properties of the anomaly detector and of the snapshot                  *)
(***************************************************************************)
HasWarning(s, kind) == \E i \in 1..Len(s.anomalies) : s.anomalies[i].kind = kind

\* the jobs that have completed: those in state success or failed
Completed == {j \in DOMAIN jobs : jobs[j].status \in Terminal}
Failed == {j \in DOMAIN jobs : jobs[j].status = "failed"}

\* C11: the failure-rate warning is in snapshot().anomalies iff at least 5 jobs
\* have completed and the failed ones are more than 10% of the completed ones; it
\* is never there with fewer than 5 completed jobs, whatever the number of jobs
\* still running.
C11_FailureRateWarning ==
    last.op = "snapshot" =>
        (HasWarning(snap, "High failure rate")
            <=> /\ Cardinality(Completed) >= 5
                /\ Cardinality(Failed) * 100 > 10 * Cardinality(Completed))

\* v is the element at index k, counted from 0, of ls sorted ascending
IsAtSortedIndex(v, ls, k) ==
    /\ \E i \in 1..Len(ls) : ls[i] = v
    /\ Cardinality({i \in 1..Len(ls) : ls[i] < v}) <= k
    /\ Cardinality({i \in 1..Len(ls) : ls[i] <= v}) > k

\* floor(n * pct / 100)
FloorRank(n, pct) == CHOOSE k \in 0..n : 100 * k <= n * pct /\ n * pct < 100 * (k + 1)

\* C12: with n >= 1 recorded latencies, snapshot() reports as p50, p95 and p99 the
\* elements at index floor(n*0.50), floor(n*0.95) and floor(n*0.99) of the
\* latencies sorted ascending, each index is in 0..n-1, and
\* min <= p50 <= p95 <= p99 <= max; with n = 0 the percentiles, min, max and mean
\* are all 0; with n = 1 the three percentiles are that latency.
C12_NearestRankPercentiles ==
    last.op = "snapshot" =>
        LET n == Len(latencies)
        IN /\ n = 0 =>
                  /\ snap.latency_p50 = 0 /\ snap.latency_p95 = 0 /\ snap.latency_p99 = 0
                  /\ snap.latency_min = 0 /\ snap.latency_max = 0
                  /\ RatEq(snap.latency_mean, Rat(0, 1))
           /\ n >= 1 =>
                  /\ FloorRank(n, 50) \in 0..(n - 1)
                  /\ FloorRank(n, 95) \in 0..(n - 1)
                  /\ FloorRank(n, 99) \in 0..(n - 1)
                  /\ IsAtSortedIndex(snap.latency_p50, latencies, FloorRank(n, 50))
                  /\ IsAtSortedIndex(snap.latency_p95, latencies, FloorRank(n, 95))
                  /\ IsAtSortedIndex(snap.latency_p99, latencies, FloorRank(n, 99))
                  /\ IsAtSortedIndex(snap.latency_min, latencies, 0)
                  /\ IsAtSortedIndex(snap.latency_max, latencies, n - 1)
                  /\ snap.latency_min <= snap.latency_p50
                  /\ snap.latency_p50 <= snap.latency_p95
                  /\ snap.latency_p95 <= snap.latency_p99
                  /\ snap.latency_p99 <= snap.latency_max
           /\ n = 1 =>
                  /\ snap.latency_p50 = latencies[1]
                  /\ snap.latency_p95 = latencies[1]
                  /\ snap.latency_p99 = latencies[1]

\* enough latencies, recorded out of order, for the four ranks to differ
C12_Witness ==
    /\ last.op = "snapshot"
    /\ Len(latencies) >= 2
    /\ latencies[1] > latencies[2]
    /\ snap.latency_min < snap.latency_p50
    /\ snap.latency_p50 < snap.latency_p95
    /\ snap.latency_p95 < snap.latency_p99
    /\ snap.latency_p99 < snap.latency_max

\* this step is a call of mark_end on a job id that has no record
UnknownEnd ==
    /\ ops' = ops + 1
    /\ last'.op = "mark_end"
    /\ last'.job_id \notin DOMAIN jobs

\* C13: mark_end(j, ok) for an id j that has no record creates a record for j with
\* status success when ok and failed otherwise, with an end timestamp and neither
\* a start timestamp nor a latency; the latency list and every other record are
\* unchanged and the number of records grows by exactly one.
C13_EndOfUnknownJob ==
    [][UnknownEnd =>
          LET j == last'.job_id
          IN /\ j \in DOMAIN jobs'
             /\ jobs'[j].status = (IF last'.ok THEN "success" ELSE "failed")
             /\ "end_time" \in DOMAIN jobs'[j]
             /\ "end_time_iso" \in DOMAIN jobs'[j]
             /\ "start_time" \notin DOMAIN jobs'[j]
             /\ "start_time_iso" \notin DOMAIN jobs'[j]
             /\ "latency_seconds" \notin DOMAIN jobs'[j]
             /\ latencies' = latencies
             /\ \A k \in DOMAIN jobs : jobs'[k] = jobs[k]
             /\ Cardinality(DOMAIN jobs') = Cardinality(DOMAIN jobs) + 1]_vars

\* two calls made two records, the second a mark_end on an id not yet known
C13_Witness ==
    /\ ops = 2
    /\ last.op = "mark_end"
    /\ Cardinality(DOMAIN jobs) = 2
    /\ "start_time" \notin DOMAIN jobs[last.job_id]
    /\ \E k \in DOMAIN jobs : k # last.job_id /\ jobs[k].status = "running"

ErrorKinds == ErrorTypes \cup {"processing_error"}
\* the events of a kind in the error log
LoggedOfKind(kind) == Cardinality({i \in 1..Len(errors) : errors[i].type = kind})
\* the count snapshot() reports for a kind; a kind it does not list counts 0
ReportedOfKind(s, kind) == IF kind \in DOMAIN s.errors THEN s.errors[kind] ELSE 0

RECURSIVE KindsInOrder(_)
KindsInOrder(ks) ==
    IF ks = {} THEN <<>>
    ELSE LET k == CHOOSE x \in ks : TRUE IN <<k>> \o KindsInOrder(ks \ {k})

\* the per-kind counts snapshot() reports, in some order of the kinds
ReportedCounts(s) ==
    LET kinds == KindsInOrder(DOMAIN s.errors)
    IN [i \in 1..Len(kinds) |-> s.errors[kinds[i]]]

\* C14: for each kind of error, processing_error of a failed end-mark included,
\* the per-kind count snapshot() reports equals the number of events of that kind
\* in the error log, and the per-kind counts sum to snapshot().error_count.
C14_ErrorCountsMatchLog ==
    last.op = "snapshot" =>
        /\ \A kind \in ErrorKinds : ReportedOfKind(snap, kind) = LoggedOfKind(kind)
        /\ DOMAIN snap.errors \subseteq ErrorKinds
        /\ Sum(ReportedCounts(snap)) = snap.error_count

\* this step is a call of mark_end with ok=True that carries change statistics
SuccessfulEndWithStats ==
    /\ ops' = ops + 1
    /\ last'.op = "mark_end"
    /\ last'.ok
    /\ Truthy(last'.result)
    /\ "stats" \in DOMAIN last'.result

\* this step is a call of mark_end with ok=False
FailedEnd ==
    /\ ops' = ops + 1
    /\ last'.op = "mark_end"
    /\ ~last'.ok

\* C15: every mark_end with ok=True that carries change statistics adds its added,
\* removed and moved counts to the bucket of the hour of the call and adds one to
\* that bucket's job count, whether or not the id had a start-mark; a mark_end
\* with ok=False changes no bucket.
C15_SuccessfulEndFillsBucket ==
    [][/\ SuccessfulEndWithStats =>
             LET h == HourKey(now)
                 stats == last'.result.stats
                 before == IF h \in DOMAIN hourly_stats THEN hourly_stats[h] ELSE <<>>
             IN /\ h \in DOMAIN hourly_stats'
                /\ hourly_stats'[h].added = GetDefault(before, "added", 0) + stats.added_count
                /\ hourly_stats'[h].removed = GetDefault(before, "removed", 0) + stats.removed_count
                /\ hourly_stats'[h].moved = GetDefault(before, "moved", 0) + stats.moved_count
                /\ "jobs" \in DOMAIN hourly_stats'[h]
                /\ hourly_stats'[h].jobs = GetDefault(before, "jobs", 0) + 1
       /\ FailedEnd => hourly_stats' = hourly_stats]_vars

\* the buckets' hours and the total of a bucket
Hours == DOMAIN hourly_stats
TotalOf(h) == hourly_stats[h].added + hourly_stats[h].removed + hourly_stats[h].moved
MostRecentHour == CHOOSE h \in Hours : \A g \in Hours : g <= h
\* the hours whose totals make the baseline
BaselineHours == IF Cardinality(Hours) > 2 THEN Hours \ {MostRecentHour} ELSE Hours
\* the baseline hours whose total is below, or at most, v
BaselineBelow(v) == Cardinality({h \in BaselineHours : TotalOf(h) < v})
BaselineUpTo(v) == Cardinality({h \in BaselineHours : TotalOf(h) <= v})
\* v is the k-th smallest baseline total, counted from 1
IsBaselineRank(v, k) ==
    /\ \E h \in BaselineHours : TotalOf(h) = v
    /\ BaselineBelow(v) < k
    /\ BaselineUpTo(v) >= k
\* twice the median of the baseline totals: the middle one twice, or the sum of
\* the two middle ones
TwiceBaselineMedian ==
    LET n == Cardinality(BaselineHours)
        vs == {TotalOf(h) : h \in BaselineHours}
    IN IF n % 2 = 1
       THEN 2 * (CHOOSE v \in vs : IsBaselineRank(v, (n + 1) \div 2))
       ELSE (CHOOSE v \in vs : IsBaselineRank(v, n \div 2))
                + (CHOOSE v \in vs : IsBaselineRank(v, n \div 2 + 1))

IsStripped(s, text) ==
    \E i \in 0..Len(text) : \E j \in 0..(Len(text) - i) :
        /\ s = SubSeq(text, i + 1, Len(text) - j)
        /\ \A k \in 1..i : text[k] \in Whitespace
        /\ \A k \in (Len(text) - j + 1)..Len(text) : text[k] \in Whitespace
        /\ s # <<>> => (s[1] \notin Whitespace /\ s[Len(s)] \notin Whitespace)

\* the generator returned a text that has more than whitespace in it
HasText(r) == r.kind = "text" /\ \E k \in 1..Len(r.text) : r.text[k] \notin Whitespace

\* C17: with the Gemini client configured, whatever the Gemini call does, diff
\* returns a summary and raises nothing: the summary is the generator's text
\* stripped when that is not empty, and the rule-based summary of the same added,
\* removed and moved when the call raises, times out, returns no text or returns
\* an empty or whitespace-only text.
C17_SummaryDespiteGenerator ==
    (pc = "done" /\ response # NotCalled) =>
        /\ ~result.raised
        /\ HasText(response) =>
              /\ result.summary # <<>>
              /\ IsStripped(result.summary, response.text)
        /\ ~HasText(response) =>
              result.summary = generate_summary_simple(result.added, result.removed, result.moved)

\* the generator returned only whitespace and the caller got the rule-based summary
C17_Witness ==
    /\ pc = "done"
    /\ response.kind = "text"
    /\ response.text # <<>>
    /\ ~HasText(response)
    /\ result.moved # <<>>
    /\ result.summary = generate_summary_simple(result.added, result.removed, result.moved)

(***************************************************************************)
(* Properties of the aggregator called from several threads                *)
(***************************************************************************)
Done(t) == thr[t].pc = "done"
AllDone == \A t \in ThreadIds : Done(t)
\* the threads whose call is of op
CallersOf(op) == {t \in ThreadIds : thr[t].call.op = op}

\* C18: the dict a snapshot() returns while other threads call mark_start,
\* mark_end, mark_error or record_changes is what snapshot() would have returned
\* in one single state of the aggregator between its call and its return: its
\* fields are never a mixture of states before and after a concurrent mutation.
C18_SnapshotOfOneState ==
    \A t \in ThreadIds :
        (Done(t) /\ thr[t].call.op = "snapshot") => thr[t].tmp \in views[t]

\* the active counter after one call
CounterAfter(c, call) ==
    IF call.op = "mark_start" THEN c + 1
    ELSE IF call.op = "mark_end" THEN (IF c > 0 THEN c - 1 ELSE 0)
    ELSE c

\* the values the active counter can have after the calls of the threads ts are
\* made one after the other, in any order, from the value c
RECURSIVE SerialCounters(_, _)
SerialCounters(ts, c) ==
    IF ts = {} THEN {c}
    ELSE UNION {SerialCounters(ts \ {t}, CounterAfter(c, thr[t].call)) : t \in ts}

\* the sum of what the record_changes calls of the threads ts add to `added`
RECURSIVE AddedBy(_)
AddedBy(ts) ==
    IF ts = {} THEN 0
    ELSE LET t == CHOOSE u \in ts : TRUE
         IN thr[t].call.added + AddedBy(ts \ {t})

\* C19: when calls of mark_start, mark_end, mark_error and record_changes made by
\* several threads at once are all done, the state is one that the same calls
\* give when made one after the other in some order: the active counter, each
\* per-kind error counter, the error log and the bucket totals have lost no
\* update.
C19_ConcurrentCallsSerialize ==
    AllDone =>
        /\ active_requests \in SerialCounters(ThreadIds, 0)
        /\ \A kind \in ErrorTypes :
              GetDefault(error_categories, kind, 0)
                  = Cardinality({t \in CallersOf("mark_error") : thr[t].call.type = kind})
        /\ Len(errors) = Cardinality(CallersOf("mark_error"))
                            + Cardinality({t \in CallersOf("mark_end") : ~thr[t].call.ok})
        /\ CallersOf("mark_end") = {} =>
              get_change_statistics(hourly_stats, jobs).total_added
                  = AddedBy(CallersOf("record_changes"))

\* C20: the dict snapshot() returned is immutable: no later call of mark_start,
\* mark_end, mark_error or record_changes changes what any of its fields reads,
\* its per-hour totals, per-kind counts, per-job map and recent errors included.
C20_SnapshotIsImmutable ==
    [][("total_jobs" \in DOMAIN snap /\ snap' = snap)
          => Observed(snap)' = Observed(snap)]_vars

(***************************************************************************)
(* Properties of the summary                                               *)
(***************************************************************************)
CompassLabels ==
    {<<"north">>, <<"south">>, <<"east">>, <<"west">>, <<"north", "east">>,
     <<"north", "west">>, <<"south", "east">>, <<"south", "west">>}

NorthSouth(dy) == IF dy > 0 THEN <<"north">> ELSE IF dy < 0 THEN <<"south">> ELSE <<>>
EastWest(dx) == IF dx > 0 THEN <<"east">> ELSE IF dx < 0 THEN <<"west">> ELSE <<>>

\* C21: get_direction returns for every pair of deltas (dx, dy): "in place"
\* exactly when dx = 0 and dy = 0, and otherwise "north" or "south" (when
\* dy # 0) followed by "east" or "west" (when dx # 0), which is one of the
\* eight compass labels.
C21_DirectionRule ==
    (ret.returned /\ DOMAIN args = {"x_delta", "y_delta"}) =>
        LET dx == args.x_delta
            dy == args.y_delta
        IN /\ (ret.value = <<"in place">>) <=> (dx = 0 /\ dy = 0)
           /\ ~(dx = 0 /\ dy = 0) =>
                 /\ ret.value = NorthSouth(dy) \o EastWest(dx)
                 /\ ret.value \in CompassLabels

\* get_direction has answered for a move to the north-west
C21_Witness ==
    /\ ret.returned
    /\ DOMAIN args = {"x_delta", "y_delta"}
    /\ args.x_delta < 0
    /\ args.y_delta > 0
    /\ ret.value = <<"north", "west">>

\* the "type" of an object, or the default the summary uses for it
TypeOr(obj, default) == IF "type" \in DOMAIN obj THEN obj.type ELSE default
\* the places of a list at which a type occurs for the first time
FirstOfType(objs) ==
    {i \in 1..Len(objs) :
        \A j \in 1..(i - 1) : TypeOr(objs[j], "object") # TypeOr(objs[i], "object")}
\* the k-th of these places
KthFirst(objs, k) ==
    CHOOSE i \in FirstOfType(objs) : Cardinality({j \in FirstOfType(objs) : j < i}) = k - 1
CountOfType(objs, ty) == Cardinality({i \in 1..Len(objs) : TypeOr(objs[i], "object") = ty})
\* "<count> <type>" with an "s" for counts above 1
CountPhrase(objs, ty) ==
    IntStr(CountOfType(objs, ty)) \o <<" ", ty>>
        \o (IF CountOfType(objs, ty) > 1 THEN <<"s">> ELSE <<>>)
\* the per-type counts of a list, one phrase per type, separated by ", "
CountPhrases(objs) ==
    Join([k \in 1..Cardinality(FirstOfType(objs)) |->
             CountPhrase(objs, TypeOr(objs[KthFirst(objs, k)], "object"))], <<", ">>)
\* a single object named by capitalized type and id
NamedBy(obj) == <<Capitalize(TypeOr(obj, "Object")), " ", obj.id>>

ExpectedRemoved(removed) ==
    IF Len(removed) = 1 THEN NamedBy(removed[1]) \o <<" removed">>
    ELSE CountPhrases(removed) \o <<" removed">>
ExpectedAdded(added) ==
    IF Len(added) = 1
    THEN NamedBy(added[1]) \o <<" added at (">> \o Str(Get(added[1], "x")) \o <<",">>
            \o Str(Get(added[1], "y")) \o <<")">>
    ELSE CountPhrases(added) \o <<" added">>
ExpectedMoved(moved) ==
    IF Len(moved) = 1
    THEN LET dx == moved[1].delta.x.v
             dy == moved[1].delta.y.v
         IN NamedBy(moved[1]) \o <<" moved ">> \o IntStr(Abs(dx) + Abs(dy)) \o <<" units ">>
                \o (IF dx = 0 /\ dy = 0 THEN <<"in place">> ELSE NorthSouth(dy) \o EastWest(dx))
    ELSE IntStr(Len(moved)) \o <<" objects repositioned">>
\* one clause per non-empty category
ExpectedClauses(added, removed, moved) ==
    (IF removed # <<>> THEN <<ExpectedRemoved(removed)>> ELSE <<>>)
    \o (IF added # <<>> THEN <<ExpectedAdded(added)>> ELSE <<>>)
    \o (IF moved # <<>> THEN <<ExpectedMoved(moved)>> ELSE <<>>)

SummaryCalled == DOMAIN args = {"added", "removed", "moved"}

\* C22: the rule-based summary is "No changes detected." exactly when the
\* three lists are empty; otherwise it is one clause per non-empty category,
\* joined by "; " and ended by ".": a single item is named by capitalized type
\* and id (with its position when added, with Manhattan distance and direction
\* when moved), several items give per-type counts with an "s" only for counts
\* above 1, and several moved items give "<n> objects repositioned".
C22_RuleBasedSummary ==
    (ret.returned /\ SummaryCalled) =>
        LET empty == args.added = <<>> /\ args.removed = <<>> /\ args.moved = <<>>
        IN /\ (ret.value = NoChangesText) <=> empty
           /\ ~empty =>
                 ret.value = Join(ExpectedClauses(args.added, args.removed, args.moved),
                                  <<"; ">>) \o <<".">>

\* the summary of two walls and a door removed, one object without a type
\* and without a position added, and a door moved by (-2, 1)
C22_Witness ==
    /\ ret.returned
    /\ SummaryCalled
    /\ Len(args.removed) = 3
    /\ Len(args.added) = 1
    /\ Len(args.moved) = 1
    /\ ret.value = <<"2", " ", "wall", "s", ", ", "1", " ", "door", " removed", "; ",
                     "Object", " ", "A1", " added at (", "None", ",", "None", ")", "; ",
                     "Door", " ", "A1", " moved ", "3", " units ", "north", "west", ".">>

(***************************************************************************)
(* Properties of the aggregator's calls                                    *)
(***************************************************************************)
MutatorCalls == {"mark_start", "mark_end", "mark_error", "record_changes"}

\* C23: mark_start, mark_end (with or without change statistics), mark_error
\* and record_changes complete without raising in every reachable state of
\* the aggregator, in any order and for any job ids.
C23_CallsNeverRaise == last.op \in MutatorCalls => ~last.raised

(***************************************************************************)
(* Properties of the health status and of the anomaly rules                *)
(***************************************************************************)
Succeeded == {j \in DOMAIN jobs : jobs[j].status = "success"}
\* the overall success rate, successful jobs over tracked jobs, is below 50%
RateBelowHalf == DOMAIN jobs # {} /\ Cardinality(Succeeded) * 100 < 50 * Cardinality(DOMAIN jobs)
\* GET /metrics answers in this step
Answers == ret' # ret /\ ret'.returned /\ "status" \in DOMAIN ret'.value

\* C24 as stated: the status is "healthy" whenever the detector returns no
\* warnings, "warning" when it returns one and the success rate is at least
\* 50%, "degraded" when the success rate is below 50%.
C24_HealthStatusAsStated ==
    [][Answers =>
         /\ ret'.value.warnings = <<>> => ret'.value.status = "healthy"
         /\ (ret'.value.warnings # <<>> /\ ~RateBelowHalf) => ret'.value.status = "warning"
         /\ RateBelowHalf => ret'.value.status = "degraded"]_vars

\* C24, amended: the status is "degraded" exactly when there are tracked jobs
\* and the overall success rate is below 50%, with or without warnings;
\* otherwise it is "warning" when the detector returns at least one warning
\* and "healthy" when it returns none.
C24_HealthStatus ==
    [][Answers =>
         /\ RateBelowHalf => ret'.value.status = "degraded"
         /\ (~RateBelowHalf /\ ret'.value.warnings # <<>>) => ret'.value.status = "warning"
         /\ (~RateBelowHalf /\ ret'.value.warnings = <<>>) => ret'.value.status = "healthy"]_vars

\* GET /metrics has answered "degraded" with an empty list of warnings
C24_Witness ==
    /\ ret.returned
    /\ "status" \in DOMAIN ret.value
    /\ ret.value.status = "degraded"
    /\ ret.value.warnings = <<>>
    /\ RateBelowHalf

MissingDataEvents == Cardinality({i \in 1..Len(errors) : errors[i].type = "missing_data"})

\* C25: the missing-data warning is in snapshot().anomalies iff the recorded
\* missing_data events are more than 5% of the completed jobs (those that
\* reached success or failed); running jobs do not count in the denominator.
\* Read for an aggregator that tracks at least one job.
C25_MissingDataWarning ==
    (last.op = "snapshot" /\ DOMAIN jobs # {}) =>
        (HasWarning(snap, "High rate of missing data")
            <=> MissingDataEvents * 100 > 5 * Cardinality(Completed))

\* the jobs that carry an end time, and the most recent of these end times
Ended == {j \in DOMAIN jobs : "end_time" \in DOMAIN jobs[j]}
MostRecentEnd == CHOOSE e \in {jobs[j].end_time : j \in Ended} : \A j \in Ended : jobs[j].end_time <= e
\* snapshot() is called in this step
SnapshotTaken == ops' = ops + 1 /\ last'.op = "snapshot"
StalenessOf(s) == {s.anomalies[i] : i \in {k \in 1..Len(s.anomalies) : s.anomalies[k].kind = "No job completions"}}

\* C26: with the clock in whole seconds, the staleness warning is in
\* snapshot().anomalies iff some job has ended and the most recent end time is
\* 3600 seconds or more in the past, and it reports the gap since that end time.
C26_StalenessWarning ==
    [][SnapshotTaken =>
         /\ HasWarning(snap', "No job completions")
               <=> (Ended # {} /\ now - MostRecentEnd >= SecondsPerHour)
         /\ \A w \in StalenessOf(snap') : w.gap_seconds = now - MostRecentEnd]_vars

(***************************************************************************)
(* Order of the lists diff reports                                         *)
(***************************************************************************)
\* the place at which an id occurs first in a snapshot
FirstPlace(snapshot, id) ==
    CHOOSE k \in 1..Len(snapshot) :
        /\ snapshot[k].id = id
        /\ \A m \in 1..(k - 1) : snapshot[m].id # id
\* the records list each id once, in the order of the ids' first places in the snapshot
InOrderOf(records, snapshot) ==
    \A p, q \in 1..Len(records) :
        p < q => FirstPlace(snapshot, records[p].id) < FirstPlace(snapshot, records[q].id)

\* C27: diff reports each id at most once and in input order: added in the
\* order in which the ids first occur in B, removed and moved in the order in
\* which they first occur in A; of records that share an id within a
\* snapshot the last one is compared and reported.
C27_InputOrderLastWins ==
    Returned =>
        /\ InOrderOf(result.added, b)
        /\ InOrderOf(result.removed, a)
        /\ InOrderOf(result.moved, a)
        /\ \A p \in 1..Len(result.added) :
              result.added[p] = LastWithId(b, result.added[p].id)
        /\ \A p \in 1..Len(result.removed) :
              result.removed[p] = LastWithId(a, result.removed[p].id)
        /\ \A p \in 1..Len(result.moved) :
              LET id == result.moved[p].id
              IN /\ result.moved[p].from.x = LastWithId(a, id).x
                 /\ result.moved[p].to.x = LastWithId(b, id).x
        /\ \A id \in IdsOf(a) \cap IdsOf(b) :
              id \in SeqIds(result.moved) <=> LastWithId(a, id).x # LastWithId(b, id).x

\* B names an id, then another, then the first again at another place: both
\* are added, the repeated id first and with its last record
C27_Witness ==
    /\ Returned
    /\ a = <<>>
    /\ Len(b) = 3
    /\ b[1].id = b[3].id
    /\ b[1].id # b[2].id
    /\ b[1] # b[3]
    /\ result.added = <<b[3], b[2]>>

(***************************************************************************)
(* The active-request counter                                              *)
(***************************************************************************)
Running == {j \in DOMAIN jobs : jobs[j].status = "running"}

\* C28: after any sequence of mark_start and mark_end calls the
\* active-request counter is non-negative and equals the number of job
\* records in state running.
C28_ActiveCountsRunning ==
    /\ active_requests >= 0
    /\ active_requests = Cardinality(Running)

RequestHandled == ops' = ops + 1 /\ last'.op \in {"analyze_local", "worker"}
\* the places in a handler's calls of the start-marks and end-marks of a job
StartsOf(calls, j) == {i \in 1..Len(calls) : calls[i].op = "mark_start" /\ calls[i].job_id = j}
EndsOf(calls, j) == {i \in 1..Len(calls) : calls[i].op = "mark_end" /\ calls[i].job_id = j}

\* C30: a request to /analyze or /worker that issues a start-mark for a job
\* issues exactly one end-mark for that job, after the start-mark and before
\* it responds, on every path; the job is not left in state running.
C30_StartedJobsAreEnded ==
    [][RequestHandled =>
         \A j \in {last'.calls[i].job_id : i \in 1..Len(last'.calls)} :
             StartsOf(last'.calls, j) # {} =>
                 /\ Cardinality(EndsOf(last'.calls, j)) = 1
                 /\ \A i \in StartsOf(last'.calls, j), k \in EndsOf(last'.calls, j) : i < k
                 /\ jobs'[j].status \in Terminal]_vars

\* /worker has handled a request whose input was missing and whose write of
\* the error result failed: one start-mark, then one end-mark
C30_Witness ==
    /\ last.op = "worker"
    /\ last.request.outcome = "a missing"
    /\ ~last.request.write_ok
    /\ last.calls = <<StartOf(last.request.job_id), EndOf(last.request.job_id, FALSE, None)>>
    /\ jobs[last.request.job_id].status = "failed"

====
